---- MODULE Spec2Model ----
(***************************************************************************)
(* Model of the aggregation layer of the developer-productivity dashboard: *)
(* the duration and median helpers (lib/jira), the daily timeseries        *)
(* aggregator (lib/aggregate), the sprint burn / forecast engine of the    *)
(* sprint-stats route and the phase-time extractor of lib/jira.            *)
(*                                                                         *)
(* Conventions.  An instant is a number of milliseconds since the epoch.   *)
(* A 'YYYY-MM-DD' string is modelled by its day number (days since the     *)
(* epoch); strings of that shape compare as their day numbers do.  A JS    *)
(* number is a record [k, num, den]: k = "num" is the rational num/den,    *)
(* k = "nan" is NaN, k = "null" is null/undefined.  Floating-point         *)
(* rounding is not modelled: arithmetic is exact.                          *)
(***************************************************************************)
EXTENDS Integers, Sequences, FiniteSets, TLC

VARIABLES
    \* ---- diffHours harness (lib/jira and sprint-stats route) ----
    dhA,          \* first argument of diffHours
    dhB,          \* second argument of diffHours
    dhOut,        \* result of lib diffHours
    dhOutRoute,   \* result of the sprint-stats route's diffHours
    dhDone,       \* the call has returned
    \* ---- median harness ----
    nums,         \* the caller's array, as it is after the call
    numsIn,       \* the array the caller passed (history)
    medOut,       \* result of median
    medDone,
    \* ---- environment ----
    tz,           \* the server's local-time offset from UTC, in ms
    \* ---- aggregateDaily ----
    aggFrom,      \* params.from, a 'YYYY-MM-DD' day
    aggTo,        \* params.to
    aggPrs,       \* params.prs
    aggIssues,    \* params.jiraIssues
    aggOut,       \* the returned TimeseriesItem[]
    aggDone,
    \* ---- avgVelocity harness ----
    velSeries,    \* the series argument
    velOut,       \* the velocity returned
    velDone,
    \* ---- sprint-stats GET: burn series and forecast ----
    spStart,      \* meta.startDate
    spEnd,        \* meta.endDate
    spNow,        \* new Date() when the handler runs
    spIssues,     \* the sprint's issues with their phase times
    spScope,      \* totalScope
    spBurn,       \* payload.burn
    spTodayIdx,   \* todayIdx (index from 0; -1 while there is none)
    spVDev,       \* vDev
    spVComp,      \* vComp
    spDevDate,    \* devCompletionDate
    spCompDate,   \* completeCompletionDate
    spPc,         \* where the handler is: "scope", "burn", "today",
                  \* "forecast", "done" (the payload is complete)
    \* ---- getIssuePhaseTimes ----
    ptKeys,       \* issueKeys
    ptResp,       \* what the Jira server answers for each issue key
    ptOut,        \* out: the result map
    ptIdx,        \* position of the for-of loop in issueKeys (from 1)
    ptPc,         \* "loop", "returned" (out was returned) or "threw"
    \* ---- stats GET: annotation of the tickets and PR linking ----
    stQuery,      \* the query parameters login, from, to, jiraAccountId
    stIssues,     \* what getJiraIssuesUpdated returns, with each issue's
                  \* changelog on the Jira server
    stPrs,        \* what getGithubPRsWithStats returns
    stPhaseTimes, \* phaseTimes
    stTickets,    \* jiraIssues as annotated (payload.tickets)
    stPrsLinked,  \* prsLinked (payload.prs)
    stStatus,     \* HTTP status of the response, 0 while there is none
    stPc,         \* "start", "phase", "annotate", "link", "done"
    \* ---- getJiraSprintScopeChanges ----
    scStart,      \* sprintStart
    scKeys,       \* issueKeys
    scResp,       \* what the Jira server answers for each issue key
    scResult,     \* result
    scIdx,        \* position of the for-of loop in issueKeys (from 1)
    scPc,         \* "loop" or "returned"
    \* ---- sprint-stats GET: PR line counts and scope classification ----
    locWorld,     \* what Jira and GitHub answer to the handler's requests
    locParents,   \* parents, with linkedPRs, prAdditions, prDeletions
    locUrls,      \* urlsByParentKey
    locScopeByKey,\* scopeByKey
    locWarnings,  \* warnings
    locStatus,    \* HTTP status of the response, 0 while there is none
    locPc,        \* "link", "fold", "scope", "respond", "done"
    \* ---- the collaborators under a configuration ----
    cfgEnv,       \* cfg: which environment variables are set
    cfgNet,       \* how the remote servers answer
    cfgCalled,    \* the collaborator (or "stats") that was called, or "none"
    cfgOut,       \* what the collaborator did: returned items or threw
    cfgResponse,  \* the response of the stats request
    \* ---- request validation of the API routes ----
    reqQuery,     \* the query parameters of the request
    reqEnvBoard,  \* process.env.JIRA_BOARD_ID
    reqUser,      \* the user the request's cookie verifies as
    reqUpstream,  \* what the collaborators do for this request
    reqEndpoint,  \* the route that handled the request, or "none"
    reqResponse,  \* the response
    \* ---- middleware ----
    mwPath,       \* req.nextUrl.pathname
    mwToken,      \* the value of the dpd_auth cookie
    mwSecret,     \* SECRET
    mwResponse,   \* what the middleware returned
    mwReached,    \* the request went on to the route or page handler
    mwPc,         \* "request" or "responded"
    \* ---- computeLifecycle ----
    lcPrs,        \* prs
    lcWorkStarted,\* opts.workStartedByPrUrl
    lcOut,        \* the returned { items, stats }
    lcDone,
    \* ---- reviewAt of an issue on the two routes ----
    rvPhase,      \* the issue's entry of getIssuePhaseTimes' result
    rvFlag,       \* its updatedByActorInWindow
    rvPoints,     \* the issue's story points
    rvSprintIssue,\* the issue as the sprint-stats route annotates it
    rvBurn,       \* the sprint-stats burn series of the issue
    rvStatsIssue, \* the issue as the stats route annotates it
    rvSprintPc,   \* "merge", "burn" or "done"
    rvStatsPc,    \* "annotate" or "done"
    \* ---- getGithubPRStatsByUrls: the concurrent batches ----
    btHasToken,   \* cfg.githubToken is set
    btUrls,       \* urls
    btRefs,       \* refs
    btChunks,     \* chunks, each a list of positions in refs
    btBatch,      \* position of the for-of loop in chunks (from 1)
    btStatus,     \* per ref: "waiting", "inflight", "ok" or "failed"
    btOut,        \* out
    btPc,         \* "start", "loop", "await" or "returned"
    \* ---- sprint-stats stream GET: the worker, its timer and the client ----
    ssClient,     \* "connected" or "closed": the client's connection
    ssWriter,     \* "open", "closed" (close() was called) or "errored"
                  \* (the readable side was cancelled)
    ssUpstream,   \* "none", "running" or how the request to /api/sprint-stats
                  \* ended
    ssTimer,      \* the interval timer is set
    ssPct,        \* pct
    ssStageIdx,   \* stageIdx
    ssSent,       \* the events the writer accepted, in order
    ssCloseCalls, \* calls of writer.close()
    ssLateWrite,  \* writer.write() was called after writer.close()
    ssTerminals,  \* 'done' and 'error' events handed to write
    ssPc,         \* position of the worker
    \* ---- sprint-stats GET: totals and completedByAssignee ----
    asIssues,     \* issues, with reviewAt and completeAt as merged
    asEnd,        \* end (meta.endDate)
    asNow,        \* now
    asKpis,       \* devCompletedSP and completeCompletedSP
    asRows,       \* completedByAssignee
    asPc,         \* "totals", "rows" or "done"
    \* ---- the data API handlers behind requireAuthOr401 ----
    auEndpoint,   \* the route the request is for
    auCookie,     \* the request's cookie header, as its ';'-separated parts
    auSecret,     \* SECRET
    auQuery,      \* "present" or "missing": the parameters the route requires
    auUpstream,   \* "ok" or "fails": what Jira, GitHub or the endpoint does
    auCalls,      \* the collaborators the handler has called
    auStatus,     \* the status of the response, 0 before there is one
    auPc          \* "request" or "done"

durVars == <<dhA, dhB, dhOut, dhOutRoute, dhDone>>
medVars == <<nums, numsIn, medOut, medDone>>

aggVars == <<aggFrom, aggTo, aggPrs, aggIssues, aggOut, aggDone>>

velVars == <<velSeries, velOut, velDone>>

spInputs == <<spStart, spEnd, spNow, spIssues>>
spOutputs == <<spScope, spBurn, spTodayIdx, spVDev, spVComp, spDevDate,
               spCompDate, spPc>>
spVars == <<spInputs, spOutputs>>

ptVars == <<ptKeys, ptResp, ptOut, ptIdx, ptPc>>
stVars == <<stQuery, stIssues, stPrs, stPhaseTimes, stTickets, stPrsLinked,
            stStatus, stPc>>
scVars == <<scStart, scKeys, scResp, scResult, scIdx, scPc>>
locVars == <<locWorld, locParents, locUrls, locScopeByKey, locWarnings,
            locStatus, locPc>>
cfgVars == <<cfgEnv, cfgNet, cfgCalled, cfgOut, cfgResponse>>
reqVars == <<reqQuery, reqEnvBoard, reqUser, reqUpstream, reqEndpoint,
            reqResponse>>
mwVars == <<mwPath, mwToken, mwSecret, mwResponse, mwReached, mwPc>>
lcVars == <<lcPrs, lcWorkStarted, lcOut, lcDone>>
rvVars == <<rvPhase, rvFlag, rvPoints, rvSprintIssue, rvBurn, rvStatsIssue,
           rvSprintPc, rvStatsPc>>
btVars == <<btHasToken, btUrls, btRefs, btChunks, btBatch, btStatus, btOut,
           btPc>>
ssVars == <<ssClient, ssWriter, ssUpstream, ssTimer, ssPct, ssStageIdx,
           ssSent, ssCloseCalls, ssLateWrite, ssTerminals, ssPc>>
asVars == <<asIssues, asEnd, asNow, asKpis, asRows, asPc>>
auVars == <<auEndpoint, auCookie, auSecret, auQuery, auUpstream, auCalls,
            auStatus, auPc>>

vars == <<durVars, medVars, tz, aggVars, velVars, spVars, ptVars, stVars, scVars, locVars, cfgVars, reqVars, mwVars, lcVars, rvVars, btVars, ssVars, asVars, auVars>>

\* What each component leaves alone.
notDur == <<medVars, tz, aggVars, velVars, spVars, ptVars, stVars, scVars, locVars, cfgVars, reqVars, mwVars, lcVars, rvVars, btVars, ssVars, asVars, auVars>>
notMed == <<durVars, tz, aggVars, velVars, spVars, ptVars, stVars, scVars, locVars, cfgVars, reqVars, mwVars, lcVars, rvVars, btVars, ssVars, asVars, auVars>>
notAgg == <<durVars, medVars, velVars, spVars, ptVars, stVars, scVars, locVars, cfgVars, reqVars, mwVars, lcVars, rvVars, btVars, ssVars, asVars, auVars>>
notVel == <<durVars, medVars, tz, aggVars, spVars, ptVars, stVars, scVars, locVars, cfgVars, reqVars, mwVars, lcVars, rvVars, btVars, ssVars, asVars, auVars>>
notSp == <<durVars, medVars, aggVars, velVars, ptVars, stVars, scVars, locVars, cfgVars, reqVars, mwVars, lcVars, rvVars, btVars, ssVars, asVars, auVars>>
notPt == <<durVars, medVars, tz, aggVars, velVars, spVars, stVars, scVars, locVars, cfgVars, reqVars, mwVars, lcVars, rvVars, btVars, ssVars, asVars, auVars>>
notSt == <<durVars, medVars, tz, aggVars, velVars, spVars, ptVars, scVars, locVars, cfgVars, reqVars, mwVars, lcVars, rvVars, btVars, ssVars, asVars, auVars>>
notSc == <<durVars, medVars, tz, aggVars, velVars, spVars, ptVars, stVars, locVars, cfgVars, reqVars, mwVars, lcVars, rvVars, btVars, ssVars, asVars, auVars>>
notLoc == <<durVars, medVars, tz, aggVars, velVars, spVars, ptVars, stVars, scVars, cfgVars, reqVars, mwVars, lcVars, rvVars, btVars, ssVars, asVars, auVars>>
notCfg == <<durVars, medVars, tz, aggVars, velVars, spVars, ptVars, stVars, scVars, locVars, reqVars, mwVars, lcVars, rvVars, btVars, ssVars, asVars, auVars>>
notReq == <<durVars, medVars, tz, aggVars, velVars, spVars, ptVars, stVars, scVars, locVars, cfgVars, mwVars, lcVars, rvVars, btVars, ssVars, asVars, auVars>>
notMw == <<durVars, medVars, tz, aggVars, velVars, spVars, ptVars, stVars, scVars, locVars, cfgVars, reqVars, lcVars, rvVars, btVars, ssVars, asVars, auVars>>
notLc == <<durVars, medVars, tz, aggVars, velVars, spVars, ptVars, stVars, scVars, locVars, cfgVars, reqVars, mwVars, rvVars, btVars, ssVars, asVars, auVars>>
notRv == <<durVars, medVars, tz, aggVars, velVars, spVars, ptVars, stVars, scVars, locVars, cfgVars, reqVars, mwVars, lcVars, btVars, ssVars, asVars, auVars>>
notBt == <<durVars, medVars, tz, aggVars, velVars, spVars, ptVars, stVars, scVars, locVars, cfgVars, reqVars, mwVars, lcVars, rvVars, ssVars, asVars, auVars>>
notSs == <<durVars, medVars, tz, aggVars, velVars, spVars, ptVars, stVars, scVars, locVars, cfgVars, reqVars, mwVars, lcVars, rvVars, btVars, asVars, auVars>>
notAs == <<durVars, medVars, tz, aggVars, velVars, spVars, ptVars, stVars, scVars, locVars, cfgVars, reqVars, mwVars, lcVars, rvVars, btVars, ssVars, auVars>>
notAu == <<durVars, medVars, tz, aggVars, velVars, spVars, ptVars, stVars, scVars, locVars, cfgVars, reqVars, mwVars, lcVars, rvVars, btVars, ssVars, asVars>>

(***************************************************************************)
(* Bounds of the model.                                                    *)
(***************************************************************************)
MaxHalfHours == 4     \* diffHours inputs lie at 0 .. MaxHalfHours half hours
MaxLen == 4           \* longest list handed to median
MaxVal == 4           \* list elements are 0 .. MaxVal
MaxDay == 3           \* calendar days 1 .. MaxDay are enumerated
MaxSeries == 7        \* longest series handed to avgVelocity
MaxHist == 3          \* longest enumerated changelog of an issue
MaxChanges == 2       \* longest enumerated Sprint changelog of an issue
MaxEntries == 2       \* longest enumerated changelog of a stats ticket
MaxPieces == 3        \* most pieces an enumerated PR title is made of
MaxPrs == 3           \* most PRs in a list handed to computeLifecycle
MaxRefs == 11         \* most URLs in a list handed to getGithubPRStatsByUrls

(***************************************************************************)
(* Program constants.                                                      *)
(***************************************************************************)
MsPerHour == 3600000      \* 36e5
HalfHourMs == MsPerHour \div 2   \* granularity of the enumerated instants
MsPerDay == 86400000

\* The server time zones enumerated: UTC-6 (America/Chicago in winter), UTC
\* and UTC+6.
TzOffsets == {-6 * MsPerHour, 0, 6 * MsPerHour}

(***************************************************************************)
(* JavaScript values.                                                      *)
(***************************************************************************)
JsNull == [k |-> "null", num |-> 0, den |-> 1]
JsNaN == [k |-> "nan", num |-> 0, den |-> 1]
JsNum(n, d) == [k |-> "num", num |-> n, den |-> d]
JsInt(n) == JsNum(n, 1)

\* A timestamp argument: null/undefined, the empty string, a string Date
\* cannot parse, or an ISO-8601 string denoting the instant ms.
TsNull == [k |-> "null", ms |-> 0]
TsEmpty == [k |-> "empty", ms |-> 0]
TsBad == [k |-> "bad", ms |-> 0]
TsIso(ms) == [k |-> "iso", ms |-> ms]

\* !s for a string-or-null value.
Falsy(s) == s.k \in {"null", "empty"}

\* new Date(s).getTime(): NaN for anything Date cannot parse.
DateGetTime(s) == IF s.k = "iso" THEN JsInt(s.ms) ELSE JsNaN

NumberIsFinite(x) == x.k = "num"

\* x - y on JS numbers of the same denominator (NaN propagates).
JsSub(x, y) ==
    IF x.k # "num" \/ y.k # "num" THEN JsNaN ELSE JsNum(x.num - y.num, x.den)

\* x / c for a positive integer constant c.
JsDivConst(x, c) == IF x.k # "num" THEN JsNaN ELSE JsNum(x.num, x.den * c)

\* Math.max(0, x): NaN if x is NaN.
MathMax0(x) ==
    IF x.k # "num" THEN JsNaN ELSE IF x.num < 0 THEN JsNum(0, x.den) ELSE x

(***************************************************************************)
(* diffHours.                                                              *)
(***************************************************************************)
\* Mutant: the clamp Math.max(0, .) is dropped.
diffHours_noClamp(a, b) ==
    IF Falsy(a) \/ Falsy(b) THEN JsNull
    ELSE LET t1 == DateGetTime(a)
             t2 == DateGetTime(b)
         IN  IF ~NumberIsFinite(t1) \/ ~NumberIsFinite(t2) THEN JsNull
             ELSE JsDivConst(JsSub(t2, t1), MsPerHour)

diffHours(a, b) ==
    IF Falsy(a) \/ Falsy(b) THEN JsNull
    ELSE LET t1 == DateGetTime(a)
             t2 == DateGetTime(b)
         IN  IF ~NumberIsFinite(t1) \/ ~NumberIsFinite(t2) THEN JsNull
             ELSE MathMax0(JsDivConst(JsSub(t2, t1), MsPerHour))

\* The copy of diffHours in the sprint-stats route.
diffHoursRoute(a, b) ==
    IF Falsy(a) \/ Falsy(b) THEN JsNull
    ELSE LET t1 == DateGetTime(a)
             t2 == DateGetTime(b)
         IN  IF ~NumberIsFinite(t1) \/ ~NumberIsFinite(t2) THEN JsNull
             ELSE MathMax0(JsDivConst(JsSub(t2, t1), MsPerHour))

DurInstants == {h * HalfHourMs : h \in 0..MaxHalfHours}
TsValues == {TsNull, TsEmpty, TsBad} \cup {TsIso(t) : t \in DurInstants}

DurIdle ==
    /\ dhA = TsNull /\ dhB = TsNull
    /\ dhOut = JsNull /\ dhOutRoute = JsNull /\ dhDone = FALSE

DurInit ==
    /\ dhA \in TsValues /\ dhB \in TsValues
    /\ dhOut = JsNull /\ dhOutRoute = JsNull /\ dhDone = FALSE

DiffHoursCall ==
    /\ ~dhDone
    /\ dhOut' = diffHours(dhA, dhB)
    /\ dhOutRoute' = diffHoursRoute(dhA, dhB)
    /\ dhDone' = TRUE
    /\ UNCHANGED <<dhA, dhB>>
    /\ UNCHANGED notDur

(***************************************************************************)
(* median.                                                                 *)
(***************************************************************************)
\* Insert x into the ascending sequence s, after the elements equal to it
\* (Array.prototype.sort is stable).
RECURSIVE InsertSorted(_, _)
InsertSorted(s, x) ==
    IF s = <<>> THEN <<x>>
    ELSE IF x < Head(s) THEN <<x>> \o s
    ELSE <<Head(s)>> \o InsertSorted(Tail(s), x)

\* [...a].sort((x, y) => x - y)
RECURSIVE SortAsc(_)
SortAsc(a) ==
    IF a = <<>> THEN <<>>
    ELSE InsertSorted(SortAsc(SubSeq(a, 1, Len(a) - 1)), a[Len(a)])

\* The value median returns for the array arr it sorted (arr non-empty).
\* JS indices are 0-based: arr[m] is arr[m + 1] here.
MiddleOf(arr) ==
    LET m == Len(arr) \div 2
    IN  IF Len(arr) % 2 = 1 THEN JsInt(arr[m + 1])
        ELSE JsNum(arr[m] + arr[m + 1], 2)

\* Mutant: the array is not sorted before the middle is taken.
median_noSort(a) ==
    [ret |-> IF Len(a) = 0 THEN JsNull ELSE MiddleOf(a), arg |-> a]

\* median(nums): ret is the value returned, arg the caller's array after the
\* call (untouched: the function sorts a copy).
median(a) ==
    [ret |-> IF Len(a) = 0 THEN JsNull ELSE MiddleOf(SortAsc(a)), arg |-> a]

RECURSIVE SeqsUpTo(_, _)
SeqsUpTo(S, n) ==
    IF n = 0 THEN {<<>>}
    ELSE LET shorter == SeqsUpTo(S, n - 1)
         IN  shorter \cup {Append(s, x) : s \in shorter, x \in S}

MedIdle ==
    /\ nums = <<>> /\ numsIn = <<>> /\ medOut = JsNull /\ medDone = FALSE

MedInit ==
    /\ nums \in SeqsUpTo(0..MaxVal, MaxLen)
    /\ numsIn = nums
    /\ medOut = JsNull /\ medDone = FALSE

MedianCall ==
    /\ ~medDone
    /\ LET r == median(nums)
       IN  /\ medOut' = r.ret
           /\ nums' = r.arg
    /\ medDone' = TRUE
    /\ UNCHANGED numsIn
    /\ UNCHANGED notMed

(***************************************************************************)
(* Dates: the Date constructor and the date-fns helpers.                   *)
(***************************************************************************)
\* new Date('YYYY-MM-DD'): a date-only ISO string is midnight UTC.
DateOfDay(day) == day * MsPerDay

\* The local calendar day (getFullYear/getMonth/getDate) of an instant.
LocalDay(t) == (t + tz) \div MsPerDay

\* formatISO(d, { representation: 'date' }): the local date of d.
FormatISODate(t) == LocalDay(t)

\* d.setHours(0, 0, 0, 0): local midnight of d's local day.
LocalMidnight(t) == LocalDay(t) * MsPerDay - tz

\* eachDayOfInterval({ start, end }), start <= end: the local midnights from
\* that of start's local day on, as long as they are not after end.
EachDayOfInterval(start, end) ==
    LET first == LocalMidnight(start)
        n == (end - first) \div MsPerDay + 1
    IN  [i \in 1..n |-> first + (i - 1) * MsPerDay]

\* iso.slice(0, 10) of a UTC ('Z') ISO timestamp: its UTC day; of the empty
\* string or a string that is no timestamp: a key that names no day.
NoDay == -1
SliceDate(s) == IF s.k = "iso" THEN s.ms \div MsPerDay ELSE NoDay

(***************************************************************************)
(* aggregateDaily.                                                         *)
(***************************************************************************)
RECURSIVE SumOver(_, _, _)
\* Sum of f[i] over the indices i in I.
SumOver(f, I, acc) ==
    IF I = {} THEN acc
    ELSE LET i == CHOOSE x \in I : TRUE
         IN  SumOver(f, I \ {i}, acc + f[i])

\* x ?? 0 for an optional integer x
OrZero(x) == IF x.k = "null" THEN 0 ELSE x.num

aggregateDaily(from, to, prs, jiraIssues) ==
    LET days == EachDayOfInterval(DateOfDay(from), DateOfDay(to))
        keys == {FormatISODate(days[i]) : i \in DOMAIN days}
        prKey(i) == SliceDate(prs[i].createdAt)
        tkKey(i) == SliceDate(jiraIssues[i].resolutiondate)
        row(k) ==
            LET ps == {i \in DOMAIN prs : prKey(i) = k}
                ts == {i \in DOMAIN jiraIssues : tkKey(i) = k}
            IN  [date |-> k,
                 prCount |-> Cardinality(ps),
                 additions |->
                     SumOver([i \in ps |-> OrZero(prs[i].additions)], ps, 0),
                 deletions |->
                     SumOver([i \in ps |-> OrZero(prs[i].deletions)], ps, 0),
                 tickets |-> Cardinality(ts),
                 storyPoints |->
                     SumOver([i \in ts |-> OrZero(jiraIssues[i].storyPoints)],
                             ts, 0)]
    IN  \* the map's values sorted by date: keys are consecutive days
        [i \in 1..Len(days) |-> row(FormatISODate(days[1]) + i - 1)]

\* PR creation times: none, or noon UTC of a day around the range.
AggTimes == {TsNull} \cup {TsIso(d * MsPerDay + 12 * MsPerHour) : d \in 0..(MaxDay + 1)}
AggPRs == [createdAt : AggTimes, additions : {JsNull, JsInt(2)}, deletions : {JsInt(1)}]
AggTickets == [resolutiondate : {TsNull, TsIso(2 * MsPerDay)}, storyPoints : {JsNull, JsInt(3)}]

AggIdle ==
    /\ aggFrom = 1 /\ aggTo = 1 /\ aggPrs = <<>> /\ aggIssues = <<>>
    /\ aggOut = <<>> /\ aggDone = FALSE

AggInit ==
    /\ aggFrom \in 1..MaxDay /\ aggTo \in aggFrom..MaxDay
    /\ aggPrs \in SeqsUpTo(AggPRs, 2)
    /\ aggIssues \in SeqsUpTo(AggTickets, 1)
    /\ aggOut = <<>> /\ aggDone = FALSE

AggregateDailyCall ==
    /\ ~aggDone
    /\ aggOut' = aggregateDaily(aggFrom, aggTo, aggPrs, aggIssues)
    /\ aggDone' = TRUE
    /\ UNCHANGED <<aggFrom, aggTo, aggPrs, aggIssues, tz>>
    /\ UNCHANGED notAgg

(***************************************************************************)
(* avgVelocity (sprint-stats route).                                       *)
(***************************************************************************)
Max(a, b) == IF a >= b THEN a ELSE b
Min(a, b) == IF a <= b THEN a ELSE b

\* The window of the forecast: avgVelocity(hist, 5).
VelocityWindow == 5

\* Mutant: every day of the window counts in the divisor, a day without a
\* positive increment contributing 0.
avgVelocity_countAllDays(series, window) ==
    IF Len(series) < 2 THEN JsInt(0)
    ELSE LET start == Max(1, Len(series) - window)
             all == start..(Len(series) - 1)
             pos == {i \in all : series[i + 1] - series[i] > 0}
             sum == SumOver([i \in pos |-> series[i + 1] - series[i]], pos, 0)
         IN  JsNum(sum, Cardinality(all))

\* avgVelocity(series, window).  The JS loop index i runs over
\* start .. length - 1 and reads series[i] - series[i - 1], which are
\* series[i + 1] - series[i] with indices from 1.
avgVelocity(series, window) ==
    IF Len(series) < 2 THEN JsInt(0)
    ELSE LET start == Max(1, Len(series) - window)
             pos == {i \in start..(Len(series) - 1) :
                        series[i + 1] - series[i] > 0}
             sum == SumOver([i \in pos |-> series[i + 1] - series[i]], pos, 0)
             n == Cardinality(pos)
         IN  IF n # 0 THEN JsNum(sum, n) ELSE JsInt(0)

\* The completed series of the end-to-end scenario: 5 SP on day 3, 10 SP on
\* day 6, with the series starting on day 1 or on day 0.
ScenarioSeries == {<<0, 0, 5, 5, 5, 10>>, <<0, 0, 0, 5, 5, 5, 10>>}

VelIdle == velSeries = <<>> /\ velOut = JsNull /\ velDone = FALSE

VelInit ==
    /\ velSeries \in SeqsUpTo(0..2, MaxSeries) \cup ScenarioSeries
    /\ velOut = JsNull /\ velDone = FALSE

AvgVelocityCall ==
    /\ ~velDone
    /\ velOut' = avgVelocity(velSeries, VelocityWindow)
    /\ velDone' = TRUE
    /\ UNCHANGED velSeries
    /\ UNCHANGED notVel

(***************************************************************************)
(* Sprint-stats GET: total scope, burn series and forecast.                *)
(***************************************************************************)
\* sp(it): typeof it.storyPoints === 'number' ? it.storyPoints : 0
sp(it) == OrZero(it.storyPoints)

\* Mutant: p.review is copied without the fallback.
ReviewAtOf_noFallback(it) == it.review

\* it.reviewAt = p.review ?? p.complete
ReviewAtOf(it) == IF it.review.k # "null" THEN it.review ELSE it.complete

\* it.completeAt = p.complete
CompleteAtOf(it) == it.complete

\* totalScope: every issue counts in committedSP or in addedSP, and
\* removedSP is the constant 0.
TotalScope(issues) ==
    Max(0, SumOver([i \in DOMAIN issues |-> sp(issues[i])], DOMAIN issues, 0))

\* Story points of the issues whose timestamp at[i] is set and not after
\* the instant d: the inner loop of the burn series.
DoneBy(issues, at, d) ==
    LET I == {i \in DOMAIN issues : ~Falsy(at[i]) /\ at[i].ms <= d}
    IN  SumOver([i \in I |-> sp(issues[i])], I, 0)

\* it.reviewAt and it.completeAt of every issue.
ReviewAts(issues) == [i \in DOMAIN issues |-> ReviewAtOf(issues[i])]
CompleteAts(issues) == [i \in DOMAIN issues |-> CompleteAtOf(issues[i])]

\* Mutant: the remaining values are not floored at 0.
Remaining_noFloor(scope, completed) == scope - completed

\* Math.max(0, committedUpToDay - completed)
Remaining(scope, completed) == Max(0, scope - completed)

\* The burn series before the forecast is written into it.
BurnSeries(issues, start, end, now, totalScope) ==
    IF Falsy(start) THEN <<>>
    ELSE LET endForSeries == IF Falsy(end) THEN now ELSE end.ms
             days == EachDayOfInterval(start.ms, endForSeries)
         IN  [i \in DOMAIN days |->
                LET devDone == DoneBy(issues, ReviewAts(issues), days[i])
                    compDone == DoneBy(issues, CompleteAts(issues), days[i])
                IN  [date |-> FormatISODate(days[i]),
                     committed |-> totalScope,
                     completed |-> compDone,
                     remaining |-> Remaining(totalScope, compDone),
                     devCompleted |-> devDone,
                     devRemaining |-> Remaining(totalScope, devDone),
                     completeCompleted |-> compDone,
                     completeRemaining |-> Remaining(totalScope, compDone),
                     devForecastCompleted |-> JsNull,
                     devForecastRemaining |-> JsNull,
                     completeForecastCompleted |-> JsNull,
                     completeForecastRemaining |-> JsNull]]

\* findIndex: the least index (from 0) of a point on which the predicate
\* holds (hit[i], i from 1), -1 if there is none.
FindIndex(hit) ==
    LET hits == {i \in DOMAIN hit : hit[i]}
    IN  IF hits = {} THEN -1
        ELSE (CHOOSE i \in hits : \A j \in hits : i <= j) - 1

\* todayIdx (index from 0), for a non-empty burn series.
TodayIdx(burn, now) ==
    LET todayKey == FormatISODate(now)
        isToday(b) == b.date = todayKey
        isFuture(b) == DateOfDay(b.date) > now
        byKey == FindIndex([i \in DOMAIN burn |-> isToday(burn[i])])
        idx == FindIndex([i \in DOMAIN burn |-> isFuture(burn[i])])
    IN  IF byKey >= 0 THEN byKey
        ELSE IF idx > 0 THEN idx - 1 ELSE Len(burn) - 1

\* Math.min(totalScope, cur + v), cur and v rationals of the same denominator.
CapAdd(totalScope, cur, v) ==
    JsNum(Min(totalScope * cur.den, cur.num + v.num), cur.den)

\* Mutant: the projection is not capped at the total scope.
ForecastStep_noCap(totalScope, cur, v) == JsNum(cur.num + v.num, cur.den)

\* One step of the projection: cur = Math.min(totalScope, cur + v).
ForecastStep(totalScope, cur, v) == CapAdd(totalScope, cur, v)

\* Math.max(0, totalScope - cur) for a rational cur.
RemainingRat(totalScope, cur) ==
    JsNum(Max(0, totalScope * cur.den - cur.num), cur.den)

\* The value cur holds when burn[i] is written (i > todayIdx, from 0).
RECURSIVE ForecastAt(_, _, _, _, _)
ForecastAt(totalScope, last, v, todayIdx, i) ==
    IF i = todayIdx THEN JsNum(last * v.den, v.den)
    ELSE ForecastStep(totalScope,
                      ForecastAt(totalScope, last, v, todayIdx, i - 1), v)

\* Math.ceil(a / b) for a >= 0, b > 0.
CeilDiv(a, b) == (a + b - 1) \div b

\* The completion date of a track whose history ends with last and whose
\* velocity is v > 0: dayKey of new Date(burn[todayIdx].date) moved on by
\* daysNeeded local days.
CompletionDate(totalScope, last, v, todayDate) ==
    LET rem == Max(0, totalScope - last)
        daysNeeded == CeilDiv(rem * v.den, v.num)
        dateDone == DateOfDay(todayDate) + daysNeeded * MsPerDay
    IN  JsInt(FormatISODate(dateDone))

\* if (vDev > 0) / if (vComp > 0)
TrackForecast(v) == v.num > 0

\* todayIdx < burn.length - 1 (todayIdx >= 0 holds of a non-empty series)
InSprint(burn, todayIdx) == todayIdx >= 0 /\ todayIdx < Len(burn) - 1

\* burn.slice(0, todayIdx + 1).map((b) => b.devCompleted) and the same
\* for completeCompleted
HistDev(burn, todayIdx) == [i \in 1..(todayIdx + 1) |-> burn[i].devCompleted]
HistComp(burn, todayIdx) ==
    [i \in 1..(todayIdx + 1) |-> burn[i].completeCompleted]

\* hist[hist.length - 1] ?? 0
LastOfHist(hist) == IF Len(hist) > 0 THEN hist[Len(hist)] ELSE 0

Noon(d) == d * MsPerDay + 12 * MsPerHour
Evening(d) == d * MsPerDay + 18 * MsPerHour
Afternoon(d) == d * MsPerDay + 15 * MsPerHour

\* Phase times of an enumerated issue: none, or noon UTC of a day.
SpTimes == {TsNull} \cup {TsIso(Noon(d)) : d \in 1..MaxDay}
SpPoints == {JsNull, JsInt(-1), JsInt(2)}

\* The end-to-end scenario: scope 20 SP, 5 SP on the burn point of day 3,
\* 10 SP on that of day 6, sprint of days 1 .. 10, today = day 6.
ScenarioIssues ==
    << [key |-> "PROJ-1", storyPoints |-> JsInt(5),
        review |-> TsNull, complete |-> TsIso(Noon(2))],
       [key |-> "PROJ-2", storyPoints |-> JsInt(5),
        review |-> TsNull, complete |-> TsIso(Noon(5))],
       [key |-> "PROJ-3", storyPoints |-> JsInt(10),
        review |-> TsNull, complete |-> TsNull] >>

SpScenarioInit ==
    /\ spStart = TsIso(Noon(1)) /\ spEnd = TsIso(Noon(10))
    /\ spNow = Afternoon(6)
    /\ spIssues = ScenarioIssues

\* A sprint without a start date has no burn series.
SpNoStartInit ==
    /\ spStart = TsNull /\ spEnd \in {TsNull, TsIso(Noon(2))}
    /\ spNow = Evening(1)
    /\ spIssues = ScenarioIssues

SpBoundedInit ==
    /\ spStart = TsIso(Noon(1))
    /\ spEnd \in {TsNull} \cup {TsIso(Noon(d)) : d \in 2..(MaxDay + 1)}
    /\ spNow \in {Evening(d) : d \in 1..(MaxDay + 1)}
    /\ \E r1 \in SpTimes, c1 \in SpTimes, p1 \in SpPoints,
          c2 \in SpTimes, p2 \in SpPoints :
          spIssues =
              << [key |-> "PROJ-1", storyPoints |-> p1,
                  review |-> r1, complete |-> c1],
                 [key |-> "PROJ-2", storyPoints |-> p2,
                  review |-> TsNull, complete |-> c2] >>

SpOutIdle ==
    /\ spScope = 0 /\ spBurn = <<>> /\ spTodayIdx = -1
    /\ spVDev = JsNull /\ spVComp = JsNull
    /\ spDevDate = JsNull /\ spCompDate = JsNull /\ spPc = "scope"

SpIdle ==
    /\ spStart = TsNull /\ spEnd = TsNull /\ spNow = 0 /\ spIssues = <<>>
    /\ SpOutIdle

SpInit == (SpScenarioInit \/ SpBoundedInit \/ SpNoStartInit) /\ SpOutIdle

\* Lines 817-826: the story points of the sprint.
SpComputeScope ==
    /\ spPc = "scope"
    /\ spScope' = TotalScope(spIssues)
    /\ spPc' = "burn"
    /\ UNCHANGED <<spInputs, tz, spBurn, spTodayIdx, spVDev, spVComp,
                   spDevDate, spCompDate>>
    /\ UNCHANGED notSp

\* Lines 868-893: one burn point per day of the sprint.
SpBuildBurn ==
    /\ spPc = "burn"
    /\ spBurn' = BurnSeries(spIssues, spStart, spEnd, spNow, spScope)
    /\ spPc' = "today"
    /\ UNCHANGED <<spInputs, tz, spScope, spTodayIdx, spVDev, spVComp,
                   spDevDate, spCompDate>>
    /\ UNCHANGED notSp

\* Lines 899-912: today's index and the two velocities.
SpLocateToday ==
    /\ spPc = "today"
    /\ Len(spBurn) > 0
    /\ LET todayIdx == TodayIdx(spBurn, spNow)
       IN  /\ spTodayIdx' = todayIdx
           /\ spVDev' = avgVelocity(HistDev(spBurn, todayIdx),
                                    VelocityWindow)
           /\ spVComp' = avgVelocity(HistComp(spBurn, todayIdx),
                                     VelocityWindow)
    /\ spPc' = "forecast"
    /\ UNCHANGED <<spInputs, tz, spScope, spBurn, spDevDate, spCompDate>>
    /\ UNCHANGED notSp

\* Line 899: an empty burn series is not forecast.
SpNoBurn ==
    /\ spPc = "today"
    /\ Len(spBurn) = 0
    /\ spPc' = "done"
    /\ UNCHANGED <<spInputs, tz, spScope, spBurn, spTodayIdx, spVDev, spVComp,
                   spDevDate, spCompDate>>
    /\ UNCHANGED notSp

\* Lines 914-942: the projection of both tracks and their completion dates.
SpForecast ==
    /\ spPc = "forecast"
    /\ LET doDev == InSprint(spBurn, spTodayIdx) /\ TrackForecast(spVDev)
           doComp == InSprint(spBurn, spTodayIdx) /\ TrackForecast(spVComp)
           lastDev == LastOfHist(HistDev(spBurn, spTodayIdx))
           lastComp == LastOfHist(HistComp(spBurn, spTodayIdx))
       IN  /\ spBurn' =
                [i \in DOMAIN spBurn |->
                    IF i - 1 <= spTodayIdx THEN spBurn[i]
                    ELSE [spBurn[i] EXCEPT
                           !.devForecastCompleted =
                               IF doDev
                               THEN ForecastAt(spScope, lastDev, spVDev,
                                               spTodayIdx, i - 1)
                               ELSE JsNull,
                           !.devForecastRemaining =
                               IF doDev
                               THEN RemainingRat(spScope,
                                        ForecastAt(spScope, lastDev, spVDev,
                                                   spTodayIdx, i - 1))
                               ELSE JsNull,
                           !.completeForecastCompleted =
                               IF doComp
                               THEN ForecastAt(spScope, lastComp, spVComp,
                                               spTodayIdx, i - 1)
                               ELSE JsNull,
                           !.completeForecastRemaining =
                               IF doComp
                               THEN RemainingRat(spScope,
                                        ForecastAt(spScope, lastComp, spVComp,
                                                   spTodayIdx, i - 1))
                               ELSE JsNull]]
           /\ spDevDate' =
                IF doDev
                THEN CompletionDate(spScope, lastDev, spVDev,
                                    spBurn[spTodayIdx + 1].date)
                ELSE JsNull
           /\ spCompDate' =
                IF doComp
                THEN CompletionDate(spScope, lastComp, spVComp,
                                    spBurn[spTodayIdx + 1].date)
                ELSE JsNull
    /\ spPc' = "done"
    /\ UNCHANGED <<spInputs, tz, spScope, spTodayIdx, spVDev, spVComp>>
    /\ UNCHANGED notSp

(***************************************************************************)
(* getIssuePhaseTimes (lib/jira): the first time each issue entered each   *)
(* status group, read from the issue's changelog.                          *)
(***************************************************************************)

\* String.prototype.trim on the strings of the model.
Trim ==
    ("To Do" :> "To Do") @@ ("In Progress" :> "In Progress")
    @@ ("IN PROGRESS" :> "IN PROGRESS") @@ ("Review" :> "Review")
    @@ ("Done" :> "Done") @@ (" done " :> "done")
    @@ ("Selected for Development" :> "Selected for Development")
    @@ ("Blocked" :> "Blocked")

\* String.prototype.toLowerCase on the strings of the model.
ToLowerCase ==
    (" done " :> " done ") @@ ("To Do" :> "to do") @@ ("In Progress" :> "in progress")
    @@ ("IN PROGRESS" :> "in progress") @@ ("Review" :> "review")
    @@ ("Done" :> "done") @@ ("done" :> "done")
    @@ ("Selected for Development" :> "selected for development")
    @@ ("Blocked" :> "blocked")

\* norm = (s) => (s ?? '').trim().toLowerCase()
norm(str) == ToLowerCase[Trim[str]]

\* The stages argument: the groups of the end-to-end scenario, with the
\* name the routes list under both todo and inProgress.
Stages ==
    [todo |-> <<"To Do", "Selected for Development">>,
     inProgress |-> <<"In Progress", "Selected for Development">>,
     review |-> <<"Review">>,
     complete |-> <<"Done">>]

\* new Set(names.map(norm))
NormSet(names) == {norm(names[i]) : i \in DOMAIN names}

\* The four timestamps before the changelog is read.
FirstTimes(created) ==
    [todo |-> created, inProgress |-> TsNull, review |-> TsNull,
     complete |-> TsNull]

\* Mutant: a later entry into a group overwrites the earlier one.
ApplyItem_lastWins(acc, it, when) ==
    IF it.field # "status" \/ it.toString = "" THEN acc
    ELSE LET to == norm(it.toString)
         IN  [todo |-> IF Falsy(acc.todo) /\ to \in NormSet(Stages.todo)
                       THEN when ELSE acc.todo,
              inProgress |-> IF to \in NormSet(Stages.inProgress)
                             THEN when ELSE acc.inProgress,
              review |-> IF to \in NormSet(Stages.review)
                         THEN when ELSE acc.review,
              complete |-> IF to \in NormSet(Stages.complete)
                           THEN when ELSE acc.complete]

\* Lines 1069-1074: one changelog item.
ApplyItem(acc, it, when) ==
    IF it.field # "status" \/ it.toString = "" THEN acc
    ELSE LET to == norm(it.toString)
         IN  [todo |-> IF Falsy(acc.todo) /\ to \in NormSet(Stages.todo)
                       THEN when ELSE acc.todo,
              inProgress |-> IF Falsy(acc.inProgress)
                                /\ to \in NormSet(Stages.inProgress)
                             THEN when ELSE acc.inProgress,
              review |-> IF Falsy(acc.review)
                            /\ to \in NormSet(Stages.review)
                         THEN when ELSE acc.review,
              complete |-> IF Falsy(acc.complete)
                              /\ to \in NormSet(Stages.complete)
                           THEN when ELSE acc.complete]

\* Line 1068: the items of one history entry, from item j on.
RECURSIVE ScanItems(_, _, _, _)
ScanItems(acc, items, j, when) ==
    IF j > Len(items) THEN acc
    ELSE ScanItems(ApplyItem(acc, items[j], when), items, j + 1, when)

\* Line 1066: the history entries in the order of the response, from i on.
RECURSIVE ScanHistories(_, _, _)
ScanHistories(acc, histories, i) ==
    IF i > Len(histories) THEN acc
    ELSE ScanHistories(ScanItems(acc, histories[i].items, 1,
                                 histories[i].created),
                       histories, i + 1)

\* Lines 1061-1078: the entry written for an issue whose changelog was read.
PhaseTimesOf(data) ==
    LET t == ScanHistories(FirstTimes(data.created), data.histories, 1)
    IN  [has |-> TRUE, todo |-> t.todo, inProgress |-> t.inProgress,
         review |-> t.review, complete |-> t.complete]

\* A key that out has no property for.
NoEntry ==
    [has |-> FALSE, todo |-> TsNull, inProgress |-> TsNull,
     review |-> TsNull, complete |-> TsNull]

\* Mutant: a failed fetch ends the batch with the exception.
CatchIssueFailure_rethrow(i) == [idx |-> i, pc |-> "threw"]

\* Lines 1079-1081: the empty catch inside the loop; the loop goes on with
\* the next key.
CatchIssueFailure(i) == [idx |-> i + 1, pc |-> "loop"]

\* Timestamps of the changelog: T0 is the creation, T1, T2, ... follow at
\* one-hour steps.
PhaseT(i) == TsIso(i * MsPerHour)

\* The items a history entry of the enumerated changelogs can carry: a
\* status change to one of these names, or a change of another field.
ItemChoices ==
    {[field |-> "status", toString |-> n] :
        n \in {"To Do", "IN PROGRESS", "Review", " done ",
               "Selected for Development", "Blocked"}}
    \cup {[field |-> "assignee", toString |-> "Done"]}

\* The histories array for a sequence of items, one item per entry, listed
\* oldest first ("asc") or newest first ("desc").
HistoriesOf(items, order) ==
    [i \in DOMAIN items |->
        [created |-> PhaseT(IF order = "asc" THEN i ELSE Len(items) + 1 - i),
         items |-> <<items[i]>>]]

\* Responses: the fetch rejects ("neterr"), the status is not OK ("notok"),
\* the body does not parse ("badjson"), or the issue is returned ("ok").
FailedResp(kind) == [kind |-> kind, created |-> TsNull, histories |-> <<>>]
OkResp(created, histories) ==
    [kind |-> "ok", created |-> created, histories |-> histories]
FailureKinds == {"neterr", "notok", "badjson"}

\* The changelog of the end-to-end scenario:
\* [created@T0 To Do, T1 In Progress, T2 Review, T3 Done].
ScenarioResp ==
    OkResp(PhaseT(0),
           HistoriesOf(<<[field |-> "status", toString |-> "In Progress"],
                         [field |-> "status", toString |-> "Review"],
                         [field |-> "status", toString |-> "Done"]>>, "asc"))

\* Every response of the enumerated domain for the first issue.
BoundedResps ==
    {FailedResp(k) : k \in FailureKinds}
    \cup {OkResp(c, HistoriesOf(items, order)) :
             c \in {TsNull, PhaseT(0)},
             items \in SeqsUpTo(ItemChoices, MaxHist),
             order \in {"asc", "desc"}}

PhaseKeys == {"PROJ-1", "PROJ-2"}

PtIdle ==
    /\ ptKeys = <<>> /\ ptResp = <<>> /\ ptOut = <<>>
    /\ ptIdx = 1 /\ ptPc = "loop"

\* Two distinct keys in either order; the first issue answers with any
\* response of the domain, the second fails or is the scenario's issue.
PtInit ==
    /\ ptKeys \in {<<"PROJ-1", "PROJ-2">>, <<"PROJ-2", "PROJ-1">>}
    /\ \E r1 \in BoundedResps \cup {ScenarioResp},
          r2 \in {FailedResp(k) : k \in FailureKinds} \cup {ScenarioResp} :
          ptResp = [k \in PhaseKeys |-> IF k = "PROJ-1" THEN r1 ELSE r2]
    /\ ptOut = [k \in PhaseKeys |-> NoEntry]
    /\ ptIdx = 1 /\ ptPc = "loop"

PtAtKey == ptPc = "loop" /\ ptIdx <= Len(ptKeys)

\* Line 1050: fetch rejects; control goes to the catch of the iteration.
PhaseFetchRejects ==
    /\ PtAtKey
    /\ ptResp[ptKeys[ptIdx]].kind = "neterr"
    /\ ptIdx' = CatchIssueFailure(ptIdx).idx
    /\ ptPc' = CatchIssueFailure(ptIdx).pc
    /\ UNCHANGED <<ptKeys, ptResp, ptOut>>
    /\ UNCHANGED notPt

\* Line 1055: if (!resp.ok) continue
PhaseNotOk ==
    /\ PtAtKey
    /\ ptResp[ptKeys[ptIdx]].kind = "notok"
    /\ ptIdx' = ptIdx + 1
    /\ UNCHANGED <<ptKeys, ptResp, ptOut, ptPc>>
    /\ UNCHANGED notPt

\* Line 1056: resp.json() rejects; control goes to the catch.
PhaseBodyRejects ==
    /\ PtAtKey
    /\ ptResp[ptKeys[ptIdx]].kind = "badjson"
    /\ ptIdx' = CatchIssueFailure(ptIdx).idx
    /\ ptPc' = CatchIssueFailure(ptIdx).pc
    /\ UNCHANGED <<ptKeys, ptResp, ptOut>>
    /\ UNCHANGED notPt

\* Lines 1056-1078: the changelog is read and out[key] is written.
PhaseRecord ==
    /\ PtAtKey
    /\ ptResp[ptKeys[ptIdx]].kind = "ok"
    /\ ptOut' = [ptOut EXCEPT
                   ![ptKeys[ptIdx]] = PhaseTimesOf(ptResp[ptKeys[ptIdx]])]
    /\ ptIdx' = ptIdx + 1
    /\ UNCHANGED <<ptKeys, ptResp, ptPc>>
    /\ UNCHANGED notPt

\* Line 1083: return out
PhaseReturn ==
    /\ ptPc = "loop" /\ ptIdx > Len(ptKeys)
    /\ ptPc' = "returned"
    /\ UNCHANGED <<ptKeys, ptResp, ptOut, ptIdx>>
    /\ UNCHANGED notPt

(***************************************************************************)
(* Stats GET (api/stats): the tickets are annotated with their phase times *)
(* and the PRs are linked to the tickets by title, for a request that has  *)
(* passed authentication.  A string that is searched is a sequence of     *)
(* characters.                                                             *)
(***************************************************************************)

\* The issue keys of the enumerated tickets.
KeyA1 == <<"A", "-", "1">>
KeyA12 == <<"A", "-", "1", "2">>
KeyB1 == <<"B", "-", "1">>

\* title.includes(k) for a non-empty k.
Includes(title, k) ==
    \E i \in 0..(Len(title) - Len(k)) : SubSeq(title, i + 1, i + Len(k)) = k

\* Array.prototype.filter over a sequence, keeping the order.
RECURSIVE FilterSeq(_, _)
FilterSeq(seq, keep) ==
    IF seq = <<>> THEN <<>>
    ELSE LET rest == FilterSeq(Tail(seq), keep)
         IN  IF Head(seq) \in keep THEN <<Head(seq)>> \o rest ELSE rest

\* new Set(jiraIssues.map(i => i.key)), in insertion order.
RECURSIVE KeySetOf(_)
KeySetOf(issues) ==
    IF issues = <<>> THEN <<>>
    ELSE LET before == KeySetOf(SubSeq(issues, 1, Len(issues) - 1))
             k == issues[Len(issues)].key
         IN  IF \E i \in DOMAIN before : before[i] = k THEN before
             ELSE Append(before, k)

\* Mutant: only the first known key found in the title is attached.
TitleMatches_firstOnly(jiraKeys, title) ==
    LET all == FilterSeq(jiraKeys,
                         {jiraKeys[i] : i \in {j \in DOMAIN jiraKeys :
                                                  Includes(title, jiraKeys[j])}})
    IN  IF all = <<>> THEN <<>> ELSE <<Head(all)>>

\* [...jiraKeys].filter(k => pr.title.includes(k))
TitleMatches(jiraKeys, title) ==
    FilterSeq(jiraKeys,
              {jiraKeys[i] : i \in {j \in DOMAIN jiraKeys :
                                       Includes(title, jiraKeys[j])}})

\* The flag of the phase-time extractor: the actor, when one is given,
\* produced a history entry inside the window from .. to (whole days).
UpdatedByActorInWindow(histories, from, to, actor) ==
    /\ actor # ""
    /\ \E i \in DOMAIN histories :
           /\ histories[i].author = actor
           /\ DateOfDay(from) <= histories[i].created.ms
           /\ histories[i].created.ms < DateOfDay(to + 1)

\* getIssuePhaseTimes(issueKeys, stages, {from, to, actorAccountId}): an
\* entry for every issue whose changelog was fetched.
PhaseTimesWithFlag(issues, from, to, actor) ==
    [i \in DOMAIN issues |->
        IF issues[i].changelog.kind = "ok"
        THEN [pt |-> PhaseTimesOf(issues[i].changelog),
              updatedByActorInWindow |->
                  UpdatedByActorInWindow(issues[i].changelog.histories,
                                         from, to, actor)]
        ELSE [pt |-> NoEntry, updatedByActorInWindow |-> FALSE]]

\* Mutant: every ticket that has phase times is flagged.
AnnotateIssue_flagAll(issue, entry) ==
    IF entry.pt.has
    THEN [key |-> issue.key,
          inProgressAt |-> entry.pt.inProgress, reviewAt |-> entry.pt.review,
          todoAt |-> entry.pt.todo, completeAt |-> entry.pt.complete,
          updatedBySelectedUserInWindow |-> TRUE]
    ELSE [key |-> issue.key,
          inProgressAt |-> TsNull, reviewAt |-> TsNull,
          todoAt |-> TsNull, completeAt |-> TsNull,
          updatedBySelectedUserInWindow |-> FALSE]

\* Lines 138-145: one ticket annotated from its phaseTimes entry; a flag
\* that is never set reads as false.
AnnotateIssue(issue, entry) ==
    IF entry.pt.has
    THEN [key |-> issue.key,
          inProgressAt |-> entry.pt.inProgress, reviewAt |-> entry.pt.review,
          todoAt |-> entry.pt.todo, completeAt |-> entry.pt.complete,
          updatedBySelectedUserInWindow |-> entry.updatedByActorInWindow]
    ELSE [key |-> issue.key,
          inProgressAt |-> TsNull, reviewAt |-> TsNull,
          todoAt |-> TsNull, completeAt |-> TsNull,
          updatedBySelectedUserInWindow |-> FALSE]

\* The request's window and the selected Jira account.
QueryFrom == 2
QueryTo == 3
Actor == "acc-1"

\* History entries of a ticket: by the actor or by somebody else, before,
\* inside (first and last day) and after the window.
EntryChoices ==
    {[created |-> TsIso(Noon(d)), author |-> a,
      items |-> <<[field |-> "status", toString |-> "In Progress"]>>] :
        d \in {QueryFrom - 1, QueryFrom, QueryTo, QueryTo + 1},
        a \in {Actor, "acc-2"}}

\* Changelogs in which the entries are listed oldest first.
EntrySeqs ==
    {h \in SeqsUpTo(EntryChoices, MaxEntries) :
        \A i, j \in DOMAIN h : i < j => h[i].created.ms <= h[j].created.ms}

\* The pieces the enumerated PR titles are made of.
TitlePieces ==
    {KeyA1, <<"2">>, <<" ">>, KeyB1, <<"a", "-", "1">>}

RECURSIVE Flatten(_)
Flatten(pieces) ==
    IF pieces = <<>> THEN <<>> ELSE Head(pieces) \o Flatten(Tail(pieces))

Titles == {Flatten(ps) : ps \in SeqsUpTo(TitlePieces, MaxPieces)}

StatsIssue(key, changelog) == [key |-> key, changelog |-> changelog]

\* Tickets with enumerated changelogs, one PR.
StFlagInit ==
    /\ stQuery \in [login : {"", "alice"}, from : {NoDay, QueryFrom},
                    to : {NoDay, QueryTo}, jiraAccountId : {"", Actor}]
    /\ \E h1 \in EntrySeqs, k2 \in FailureKinds \cup {"ok"} :
          stIssues =
              << StatsIssue(KeyA1, OkResp(PhaseT(0), h1)),
                 StatsIssue(KeyB1,
                            IF k2 = "ok"
                            THEN OkResp(PhaseT(0),
                                        <<[created |-> TsIso(Noon(QueryTo)),
                                           author |-> Actor,
                                           items |-> <<[field |-> "status",
                                                        toString |-> "Done"]>>]>>)
                            ELSE FailedResp(k2)) >>
    /\ stPrs = << [title |-> KeyA1 \o <<" ">>, additions |-> JsInt(1)] >>

\* Enumerated PR titles against every set of tickets.
StTitleInit ==
    /\ stQuery = [login |-> "alice", from |-> QueryFrom, to |-> QueryTo,
                  jiraAccountId |-> Actor]
    /\ stIssues \in
          {FilterSeq(<< StatsIssue(KeyA1, FailedResp("notok")),
                        StatsIssue(KeyA12, FailedResp("notok")),
                        StatsIssue(KeyB1, FailedResp("notok")) >>, keep) :
              keep \in SUBSET {StatsIssue(KeyA1, FailedResp("notok")),
                               StatsIssue(KeyA12, FailedResp("notok")),
                               StatsIssue(KeyB1, FailedResp("notok"))}}
    /\ \E t \in Titles :
          stPrs = << [title |-> t, additions |-> JsInt(1)],
                     [title |-> <<"B", "-", "1", "2">>, additions |-> JsNull] >>

StOutIdle ==
    /\ stPhaseTimes = <<>> /\ stTickets = <<>> /\ stPrsLinked = <<>>
    /\ stStatus = 0 /\ stPc = "start"

StIdle ==
    /\ stQuery = [login |-> "", from |-> NoDay, to |-> NoDay,
                  jiraAccountId |-> ""]
    /\ stIssues = <<>> /\ stPrs = <<>> /\ StOutIdle

StInit == (StFlagInit \/ StTitleInit) /\ StOutIdle

\* if (!login || !from || !to)
StMissingParams(q) == q.login = "" \/ q.from = NoDay \/ q.to = NoDay

\* Lines 97-99: a required parameter is missing, 400 with a JSON error.
StatsBadRequest ==
    /\ stPc = "start" /\ StMissingParams(stQuery)
    /\ stStatus' = 400 /\ stPc' = "done"
    /\ UNCHANGED <<stQuery, stIssues, stPrs, stPhaseTimes, stTickets,
                   stPrsLinked>>
    /\ UNCHANGED notSt

\* Lines 101-112: the PRs and the tickets are fetched.
StatsFetch ==
    /\ stPc = "start" /\ ~StMissingParams(stQuery)
    /\ stTickets' = [i \in DOMAIN stIssues |->
                        AnnotateIssue(stIssues[i],
                                      [pt |-> NoEntry,
                                       updatedByActorInWindow |-> FALSE])]
    /\ stPc' = "phase"
    /\ UNCHANGED <<stQuery, stIssues, stPrs, stPhaseTimes, stPrsLinked,
                   stStatus>>
    /\ UNCHANGED notSt

\* Lines 115-135: phaseTimes, fetched when there is a ticket.
StatsPhaseTimes ==
    /\ stPc = "phase"
    /\ stPhaseTimes' =
          IF Len(stIssues) > 0
          THEN PhaseTimesWithFlag(stIssues, stQuery.from, stQuery.to,
                                  stQuery.jiraAccountId)
          ELSE <<>>
    /\ stPc' = "annotate"
    /\ UNCHANGED <<stQuery, stIssues, stPrs, stTickets, stPrsLinked,
                   stStatus>>
    /\ UNCHANGED notSt

\* Lines 137-150: the tickets are annotated.
StatsAnnotate ==
    /\ stPc = "annotate"
    /\ stTickets' = [i \in DOMAIN stIssues |->
                        AnnotateIssue(stIssues[i], stPhaseTimes[i])]
    /\ stPc' = "link"
    /\ UNCHANGED <<stQuery, stIssues, stPrs, stPhaseTimes, stPrsLinked,
                   stStatus>>
    /\ UNCHANGED notSt

\* Lines 153-210: the PRs get their jiraKeys and the payload is returned
\* (its kpis, timeseries and lifecycle are not part of this state).
StatsLinkAndRespond ==
    /\ stPc = "link"
    /\ stPrsLinked' =
          [p \in DOMAIN stPrs |->
              [title |-> stPrs[p].title, additions |-> stPrs[p].additions,
               jiraKeys |-> TitleMatches(KeySetOf(stTickets),
                                         stPrs[p].title)]]
    /\ stStatus' = 200 /\ stPc' = "done"
    /\ UNCHANGED <<stQuery, stIssues, stPrs, stPhaseTimes, stTickets>>
    /\ UNCHANGED notSt

(***************************************************************************)
(* getJiraSprintScopeChanges (lib/jira).  The text of a Sprint value is    *)
(* modelled by the sequence of sprint ids it spells as "id=<n>", in the    *)
(* order of the text; the empty sequence is a missing or empty text.       *)
(***************************************************************************)

\* The sprint asked about and another sprint.
TargetSprint == 12
OtherSprint == 11

\* containsSprintId: text.match(/\bid\s*=\s*(\d+)\b/) finds the first id of
\* the text, and that one is compared with String(sprintId).
containsSprintId(text, sprintId) ==
    IF text = <<>> THEN FALSE ELSE text[1] = sprintId

\* Number.isFinite(startMs) && Number.isFinite(when) && when > startMs
AfterStart(startMs, when) ==
    NumberIsFinite(startMs) /\ NumberIsFinite(when) /\ when.num > startMs.num

\* new Date(s).getTime() of an optional timestamp, NaN when it is missing.
TimeOrNaN(s) == IF Falsy(s) THEN JsNaN ELSE DateGetTime(s)

\* ScopeItem with the flags overwritten by every in/out entry.
ScopeItem_latestOnly(flags, ch, when, startMs, sprintId) ==
    IF ch.field # "Sprint" THEN flags
    ELSE LET toHas == containsSprintId(ch.toString, sprintId)
             fromHas == containsSprintId(ch.fromString, sprintId)
             after == AfterStart(startMs, when)
         IN  IF toHas = fromHas THEN flags
             ELSE [added |-> ~fromHas /\ toHas /\ after,
                   wasIn |-> ~after]

\* Lines 1004-1016: one changelog item; flags = [added, wasIn].
ScopeItem(flags, ch, when, startMs, sprintId) ==
    IF ch.field # "Sprint" THEN flags
    ELSE LET toHas == containsSprintId(ch.toString, sprintId)
             fromHas == containsSprintId(ch.fromString, sprintId)
             after == AfterStart(startMs, when)
         IN  [added |-> flags.added \/ (~fromHas /\ toHas /\ after),
              wasIn |-> \/ flags.wasIn
                        \/ (~fromHas /\ toHas /\ ~after)
                        \/ (fromHas /\ ~toHas /\ ~after)]

RECURSIVE ScopeItems(_, _, _, _, _, _)
ScopeItems(flags, items, j, when, startMs, sprintId) ==
    IF j > Len(items) THEN flags
    ELSE ScopeItems(ScopeItem(flags, items[j], when, startMs, sprintId),
                    items, j + 1, when, startMs, sprintId)

RECURSIVE ScopeHistories(_, _, _, _, _)
ScopeHistories(flags, histories, i, startMs, sprintId) ==
    IF i > Len(histories) THEN flags
    ELSE ScopeHistories(
             ScopeItems(flags, histories[i].items, 1,
                        TimeOrNaN(histories[i].created), startMs, sprintId),
             histories, i + 1, startMs, sprintId)

\* Lines 998-1022: the classification of an issue whose changelog was read.
ClassifyScope(histories, sprintStart, sprintId) ==
    LET flags == ScopeHistories([added |-> FALSE, wasIn |-> FALSE],
                                histories, 1, TimeOrNaN(sprintStart),
                                sprintId)
    IN  IF flags.added THEN "added"
        ELSE IF flags.wasIn THEN "committed"
        ELSE "committed"

\* The sprint starts at noon of day 2.
SprintStartAt == TsIso(Noon(2))

\* Sprint-field changes: into the sprint, out of it, into it next to an
\* earlier sprint, into another sprint, from another sprint into it; and a
\* change of another field.
ScopeItemChoices ==
    {[field |-> "Sprint", fromString |-> <<>>,
      toString |-> <<TargetSprint>>],
     [field |-> "Sprint", fromString |-> <<TargetSprint>>,
      toString |-> <<>>],
     [field |-> "Sprint", fromString |-> <<OtherSprint>>,
      toString |-> <<OtherSprint, TargetSprint>>],
     [field |-> "Sprint", fromString |-> <<>>,
      toString |-> <<OtherSprint>>],
     [field |-> "Sprint", fromString |-> <<OtherSprint>>,
      toString |-> <<TargetSprint>>],
     [field |-> "status", fromString |-> <<>>, toString |-> <<>>]}

\* An entry is made at the sprint start, one day after it, or carries no
\* timestamp.
ScopeEntryChoices ==
    {[created |-> c, items |-> <<ch>>] :
        c \in {SprintStartAt, TsIso(Noon(3)), TsNull},
        ch \in ScopeItemChoices}

\* An issue that joins, leaves and rejoins the sprint (and leaves it once
\* more), each entry made at one of the three times, scanned first to last
\* or last to first.
ScopeIn(c) ==
    [created |-> c,
     items |-> <<[field |-> "Sprint", fromString |-> <<>>,
                  toString |-> <<TargetSprint>>]>>]
ScopeOut(c) ==
    [created |-> c,
     items |-> <<[field |-> "Sprint", fromString |-> <<TargetSprint>>,
                  toString |-> <<>>]>>]
ScopeTimes == {SprintStartAt, TsIso(Noon(3)), TsNull}
Reverse(s) == [i \in 1..Len(s) |-> s[Len(s) + 1 - i]]
ScopeRejoinChoices ==
    LET three == {<<ScopeIn(a), ScopeOut(b), ScopeIn(c)>> :
                     a \in ScopeTimes, b \in ScopeTimes, c \in ScopeTimes}
        four == {h \o <<ScopeOut(d)>> : h \in three, d \in ScopeTimes}
    IN  three \cup four \cup {Reverse(h) : h \in three \cup four}

ScopeOk(histories) == [kind |-> "ok", histories |-> histories]
ScopeFailed(kind) == [kind |-> kind, histories |-> <<>>]

ScIdle ==
    /\ scStart = TsNull /\ scKeys = <<>> /\ scResp = <<>> /\ scResult = <<>>
    /\ scIdx = 1 /\ scPc = "loop"

\* Two issues: the first with any enumerated changelog, a changelog of an
\* issue that left and rejoined the sprint, or a failed fetch,
\* the second without Sprint entries or with a failed fetch.
ScInit ==
    /\ scStart \in {TsNull, SprintStartAt}
    /\ scKeys = <<"PROJ-1", "PROJ-2">>
    /\ \E r1 \in {ScopeOk(h) : h \in SeqsUpTo(ScopeEntryChoices, MaxChanges)}
                    \cup {ScopeOk(h) : h \in ScopeRejoinChoices}
                    \cup {ScopeFailed(k) : k \in FailureKinds},
          r2 \in {ScopeOk(<<>>), ScopeFailed("neterr")} :
          scResp = [k \in PhaseKeys |-> IF k = "PROJ-1" THEN r1 ELSE r2]
    /\ scResult = [k \in PhaseKeys |-> "none"]
    /\ scIdx = 1 /\ scPc = "loop"

ScAtKey == scPc = "loop" /\ scIdx <= Len(scKeys)

\* Lines 984, 989 and 1023: fetch or resp.json() rejects; the empty catch,
\* then the next key.
ScopeFetchFails ==
    /\ ScAtKey
    /\ scResp[scKeys[scIdx]].kind \in {"neterr", "badjson"}
    /\ scIdx' = scIdx + 1
    /\ UNCHANGED <<scStart, scKeys, scResp, scResult, scPc>>
    /\ UNCHANGED notSc

\* Line 988: if (!resp.ok) continue
ScopeNotOk ==
    /\ ScAtKey
    /\ scResp[scKeys[scIdx]].kind = "notok"
    /\ scIdx' = scIdx + 1
    /\ UNCHANGED <<scStart, scKeys, scResp, scResult, scPc>>
    /\ UNCHANGED notSc

\* Lines 989-1022: the changelog is read and result[key] is written.
ScopeClassify ==
    /\ ScAtKey
    /\ scResp[scKeys[scIdx]].kind = "ok"
    /\ scResult' = [scResult EXCEPT
                      ![scKeys[scIdx]] =
                          ClassifyScope(scResp[scKeys[scIdx]].histories,
                                        scStart, TargetSprint)]
    /\ scIdx' = scIdx + 1
    /\ UNCHANGED <<scStart, scKeys, scResp, scPc>>
    /\ UNCHANGED notSc

\* Line 1028: return result
ScopeReturn ==
    /\ scPc = "loop" /\ scIdx > Len(scKeys)
    /\ scPc' = "returned"
    /\ UNCHANGED <<scStart, scKeys, scResp, scResult, scIdx>>
    /\ UNCHANGED notSc

(***************************************************************************)
(* sprint-stats GET, lines 735-815: PR line counts folded onto the parent  *)
(* issues, and the scope classification, each in its try/catch.            *)
(***************************************************************************)
\* Pull-request URLs: two on GitHub, one elsewhere.
U1 == "https://github.com/acme/app/pull/1"
U2 == "https://github.com/acme/app/pull/2"
U3 == "https://bitbucket.org/acme/app/pull-requests/3"
Undefined == "undefined"

\* u.includes('github.com') on the URLs above.
IncludesGithub == [u \in {U1, U2, U3} |-> u \in {U1, U2}]

\* parsePullUrl(url) is not null: the host ends with github.com and the
\* path is /<owner>/<repo>/pull/<n>.
ParsesAsPull == [u \in {U1, U2, U3} |-> u \in {U1, U2}]

\* (i.issueType ?? '').toLowerCase() on the issue types of the sprint.
LowerType ==
    [t \in {"Story", "Bug", "Sub-task"} |->
        CASE t = "Story" -> "story"
          [] t = "Bug" -> "bug"
          [] t = "Sub-task" -> "sub-task"]

\* The sprint's issues as getJiraSprintIssues returned them.
LocIssues ==
    <<[id |-> "10", key |-> "PROJ-1", issueType |-> "Story"],
      [id |-> "20", key |-> "PROJ-2", issueType |-> "Bug"],
      [id |-> "11", key |-> "PROJ-3", issueType |-> "Sub-task"]>>
LocIds == {"10", "11", "20"}
LocKeys == {"PROJ-1", "PROJ-2", "PROJ-3"}

\* Lines 736-738: issues.filter(i => ['story','bug','task'].includes(...))
RECURSIVE ParentsOf(_)
ParentsOf(issues) ==
    IF issues = <<>> THEN <<>>
    ELSE LET rest == ParentsOf(Tail(issues))
         IN  IF LowerType[Head(issues).issueType] \in {"story", "bug", "task"}
             THEN <<Head(issues)>> \o rest ELSE rest

\* getJiraSubtaskIds: the JQL answer is a list of [id, parent]; a failed
\* search is an empty list (runJQL(...).catch(() => [])); the map is a
\* function on the keys, <<>> where the map has no entry.
RECURSIVE SubtaskMap(_, _)
SubtaskMap(found, map) ==
    IF found = <<>> THEN map
    ELSE LET it == Head(found)
         IN  SubtaskMap(Tail(found),
                 IF it.parent = Undefined THEN map
                 ELSE [map EXCEPT ![it.parent] = Append(@, it.id)])

getJiraSubtaskIds(parentKeys, answer) ==
    LET none == [k \in LocKeys |-> <<>>]
    IN  IF Len(parentKeys) = 0 THEN none
        ELSE SubtaskMap(IF answer.kind = "ok" THEN answer.issues ELSE <<>>,
                        none)

\* Lines 1107-1119 of getJiraIssuePRs: url ?? self, entries without either
\* are dropped.
RECURSIVE DevStatusUrls(_)
DevStatusUrls(pullRequests) ==
    IF pullRequests = <<>> THEN <<>>
    ELSE LET p == Head(pullRequests)
             urlVal == IF p.url # Undefined THEN p.url ELSE p.self
             rest == DevStatusUrls(Tail(pullRequests))
         IN  IF urlVal = Undefined THEN rest ELSE <<urlVal>> \o rest

\* getJiraIssuePRs: the URL list of each asked issue id; [] for an issue
\* whose lookup failed (lines 1102 and 1122-1124); <<>> for ids not asked.
getJiraIssuePRs(issueIds, dev) ==
    [id \in LocIds |->
        IF id \in issueIds /\ dev[id].kind = "ok"
        THEN DevStatusUrls(dev[id].pullRequests) ELSE <<>>]

\* Array.from(new Set(urls)): the first occurrence of each URL, in order.
RECURSIVE Unique(_)
Unique(urls) ==
    IF urls = <<>> THEN <<>>
    ELSE LET n == Len(urls)
             before == Unique(SubSeq(urls, 1, n - 1))
         IN  IF \E i \in DOMAIN before : before[i] = urls[n] THEN before
             ELSE Append(before, urls[n])

\* childIds.flatMap(id => prsByIssueId[id] ?? [])
RECURSIVE FlatMapPRs(_, _)
FlatMapPRs(childIds, prsByIssueId) ==
    IF childIds = <<>> THEN <<>>
    ELSE prsByIssueId[Head(childIds)]
             \o FlatMapPRs(Tail(childIds), prsByIssueId)

\* Mutant: the URLs are not deduplicated.
UrlsOfParent_noDedup(p, subtaskIds, prsByIssueId) ==
    prsByIssueId[p.id] \o FlatMapPRs(subtaskIds[p.key], prsByIssueId)

\* Lines 759-768: the distinct URLs of a parent and its subtasks.
UrlsOfParent(p, subtaskIds, prsByIssueId) ==
    Unique(prsByIssueId[p.id] \o FlatMapPRs(subtaskIds[p.key], prsByIssueId))

NoStats == [has |-> FALSE, additions |-> 0, deletions |-> 0]
StatsOf(a, d) == [has |-> TRUE, additions |-> a, deletions |-> d]

\* getGithubPRStatsByUrls: out[url] for the URLs that parse as a pull
\* request and whose query answered with a pull request; NoStats where out
\* has no entry.
getGithubPRStatsByUrls(urls, gh, hasToken) ==
    [u \in {U1, U2, U3} |->
        IF hasToken /\ u \in urls /\ ParsesAsPull[u] /\ gh[u].kind = "ok"
        THEN StatsOf(gh[u].additions, gh[u].deletions) ELSE NoStats]

\* Lines 781-791: add and del of one parent.
RECURSIVE FoldStats(_, _, _)
FoldStats(urls, statsByUrl, acc) ==
    IF urls = <<>> THEN acc
    ELSE LET s == statsByUrl[Head(urls)]
         IN  FoldStats(Tail(urls), statsByUrl,
                 IF s.has THEN [add |-> acc.add + s.additions,
                                del |-> acc.del + s.deletions]
                 ELSE acc)

\* getJiraSprintScopeChanges as a whole: result[key] for the issues whose
\* changelog was read, "none" where the result has no entry.
ScopeChangesOf(resp, sprintStart, sprintId) ==
    [k \in LocKeys |->
        IF resp[k].kind = "ok"
        THEN ClassifyScope(resp[k].histories, sprintStart, sprintId)
        ELSE "none"]

\* Line 822: scopeByKey[it.key] ?? 'committed'
TagOf(scopeByKey, key) ==
    IF scopeByKey[key] = "none" THEN "committed" ELSE scopeByKey[key]

\* None of the collaborators called between lines 735 and 815 rejects:
\* getJiraSubtaskIds catches the search's failure (line 1137),
\* getJiraIssuePRs and getJiraSprintScopeChanges catch inside their loops
\* (lines 1122 and 1023), getGithubPRStatsByUrls catches in each request
\* (line 277), and the helpers before the loops (normalizedBase, Buffer.from)
\* do not throw.
AggregationThrows(world) == FALSE
ScopeThrows(world) == FALSE

WarnLoc == "PR -> LOC aggregation unavailable (dev-status/permissions)"
WarnScope == "Scope change classification unavailable (insufficient Jira permissions or changelog disabled)"

\* What the servers answer.
PrUrl(u) == [url |-> u, self |-> Undefined]
PrSelf(u) == [url |-> Undefined, self |-> u]
DevOk(prs) == [kind |-> "ok", pullRequests |-> prs]
DevFailed(kind) == [kind |-> kind, pullRequests |-> <<>>]
DevChoices ==
    {DevOk(prs) : prs \in {<<>>, <<PrUrl(U1)>>, <<PrUrl(U1), PrUrl(U1)>>,
                           <<PrUrl(U1), PrUrl(U2)>>, <<PrSelf(U2)>>,
                           <<PrUrl(U3)>>, <<PrUrl(U1), PrUrl(U3)>>,
                           <<PrUrl(Undefined)>>}}
      \cup {DevFailed("neterr"), DevFailed("notok")}
SubtaskChoices ==
    {[kind |-> "ok", issues |-> <<[id |-> "11", parent |-> "PROJ-1"]>>],
     [kind |-> "ok", issues |-> <<[id |-> "11", parent |-> Undefined]>>],
     [kind |-> "neterr", issues |-> <<>>],
     [kind |-> "notok", issues |-> <<>>]}
GhOk(a, d) == [kind |-> "ok", additions |-> a, deletions |-> d]
GhFailed(kind) == [kind |-> kind, additions |-> 0, deletions |-> 0]
LocScopeChoices ==
    {ScopeOk(<<>>),
     ScopeOk(<<[created |-> TsIso(Noon(3)),
                items |-> <<[field |-> "Sprint", fromString |-> <<>>,
                             toString |-> <<TargetSprint>>]>>]>>),
     ScopeFailed("neterr"), ScopeFailed("notok")}

LocOutIdle ==
    /\ locParents = <<>> /\ locUrls = <<>> /\ locScopeByKey = <<>>
    /\ locWarnings = <<>> /\ locStatus = 0 /\ locPc = "link"

LocIdle == locWorld = <<>> /\ LocOutIdle

LocInit ==
    /\ \E sub \in SubtaskChoices, d10 \in DevChoices, d11 \in DevChoices,
          d20 \in {DevOk(<<>>), DevOk(<<PrUrl(U1)>>), DevFailed("neterr")},
          g1 \in {GhOk(3, 1), GhFailed("neterr")},
          g2 \in {GhOk(5, 2), GhFailed("nopr")},
          tok \in BOOLEAN, s1 \in LocScopeChoices :
          locWorld = [subtasks |-> sub,
                      dev |-> [id \in LocIds |->
                                  CASE id = "10" -> d10 [] id = "11" -> d11
                                    [] id = "20" -> d20],
                      gh |-> [u \in {U1, U2, U3} |->
                                  CASE u = U1 -> g1 [] u = U2 -> g2
                                    [] u = U3 -> GhFailed("nopr")],
                      githubToken |-> tok,
                      scope |-> [k \in LocKeys |->
                                  IF k = "PROJ-1" THEN s1 ELSE ScopeOk(<<>>)]]
    /\ LocOutIdle

RECURSIVE SeqToSet(_)
SeqToSet(s) == IF s = <<>> THEN {} ELSE {Head(s)} \cup SeqToSet(Tail(s))

\* Lines 735-773: the parents, their subtasks, the PRs of both, and the
\* distinct URLs of each parent; p.linkedPRs keeps the duplicates.
LocLinkPRs ==
    /\ locPc = "link" /\ locWorld # <<>>
    /\ LET parents == ParentsOf(LocIssues)
           keys == [i \in DOMAIN parents |-> parents[i].key]
           subtaskIds == getJiraSubtaskIds(keys, locWorld.subtasks)
           allIssueIds ==
               {parents[i].id : i \in DOMAIN parents}
                 \cup UNION {SeqToSet(subtaskIds[k]) : k \in LocKeys}
           prsByIssueId == getJiraIssuePRs(allIssueIds, locWorld.dev)
       IN  IF AggregationThrows(locWorld)
           THEN /\ locWarnings' = Append(locWarnings, WarnLoc)
                /\ locPc' = "scope"
                /\ UNCHANGED <<locParents, locUrls>>
           ELSE /\ locUrls' = [k \in LocKeys |->
                                IF \E i \in DOMAIN parents : parents[i].key = k
                                THEN UrlsOfParent(
                                         CHOOSE p \in SeqToSet(parents) :
                                             p.key = k,
                                         subtaskIds, prsByIssueId)
                                ELSE <<>>]
                /\ locParents' =
                       [i \in DOMAIN parents |->
                           [id |-> parents[i].id, key |-> parents[i].key,
                            linkedPRs |->
                                prsByIssueId[parents[i].id]
                                  \o FlatMapPRs(subtaskIds[parents[i].key],
                                                prsByIssueId),
                            prAdditions |-> -1, prDeletions |-> -1]]
                /\ locPc' = "fold"
                /\ UNCHANGED locWarnings
    /\ UNCHANGED <<locWorld, locScopeByKey, locStatus>>
    /\ UNCHANGED notLoc

\* Lines 769 and 776-792: the statistics of the GitHub URLs, summed over
\* each parent's distinct URLs.
LocFoldStats ==
    /\ locPc = "fold"
    /\ LET allUrls == {u \in UNION {SeqToSet(locUrls[k]) : k \in LocKeys} :
                          IncludesGithub[u]}
           statsByUrl == getGithubPRStatsByUrls(allUrls, locWorld.gh,
                                                locWorld.githubToken)
       IN  locParents' =
               [i \in DOMAIN locParents |->
                   LET t == FoldStats(locUrls[locParents[i].key], statsByUrl,
                                      [add |-> 0, del |-> 0])
                   IN  [locParents[i] EXCEPT !.prAdditions = t.add,
                                             !.prDeletions = t.del]]
    /\ locPc' = "scope"
    /\ UNCHANGED <<locWorld, locUrls, locScopeByKey, locWarnings, locStatus>>
    /\ UNCHANGED notLoc

\* Lines 806-815: scopeByKey, or the warning when the call rejects.
LocClassifyScope ==
    /\ locPc = "scope"
    /\ IF ScopeThrows(locWorld)
       THEN /\ locWarnings' = Append(locWarnings, WarnScope)
            /\ locScopeByKey' = [k \in LocKeys |-> "none"]
       ELSE /\ locScopeByKey' = ScopeChangesOf(locWorld.scope, SprintStartAt,
                                               TargetSprint)
            /\ UNCHANGED locWarnings
    /\ locPc' = "respond"
    /\ UNCHANGED <<locWorld, locParents, locUrls, locStatus>>
    /\ UNCHANGED notLoc

\* The payload is answered with status 200 and the warnings.
LocRespond ==
    /\ locPc = "respond"
    /\ locStatus' = 200
    /\ locPc' = "done"
    /\ UNCHANGED <<locWorld, locParents, locUrls, locScopeByKey, locWarnings>>
    /\ UNCHANGED notLoc

(***************************************************************************)
(* The collaborators under a configuration (lib/config, lib/github,        *)
(* lib/jira) and the stats request over them.                              *)
(***************************************************************************)
\* process.env.X ?? '' : a variable is the empty string or set.
EnvValues == {"", "set"}
Configs ==
    [githubToken : EnvValues, githubOrg : EnvValues, jiraBaseUrl : EnvValues,
     jiraEmail : EnvValues, jiraToken : EnvValues]

\* What the remote servers do with a request: answer it, answer with a
\* non-OK status, or not answer at all (fetch rejects).
NetKinds == {"up", "notok", "neterr"}

Threw(message) == [kind |-> "threw", items |-> <<>>, message |-> message]
Returned(items) == [kind |-> "returned", items |-> items, message |-> ""]

\* !cfg.jiraBaseUrl || !cfg.jiraEmail || !cfg.jiraToken
JiraUnconfigured(c) ==
    c.jiraBaseUrl = "" \/ c.jiraEmail = "" \/ c.jiraToken = ""

\* getGithubPRsWithStats: line 38 throws without a token; a rejected fetch
\* and a non-OK answer (line 97) throw as well.
getGithubPRsWithStats(c, net) ==
    IF c.githubToken = "" THEN Threw("Missing GITHUB_TOKEN")
    ELSE IF net # "up" THEN Threw("GitHub GraphQL error")
    ELSE Returned(<<"pr">>)

\* getGithubOrgMembers: line 156 throws without a token, line 157 returns
\* [] without an organisation, line 169 throws on a non-OK answer.
getGithubOrgMembers(c, net) ==
    IF c.githubToken = "" THEN Threw("Missing GITHUB_TOKEN")
    ELSE IF c.githubOrg = "" THEN Returned(<<>>)
    ELSE IF net # "up" THEN Threw("GitHub members failed")
    ELSE Returned(<<"member">>)

\* getGithubPRStatsByUrls for one GitHub URL, as an outcome.
PRStatsOutcome(c, net) ==
    LET gh == [u \in {U1, U2, U3} |->
                  IF net = "up" THEN GhOk(3, 1) ELSE GhFailed("neterr")]
        out == getGithubPRStatsByUrls({U1}, gh, c.githubToken # "")
    IN  Returned(IF out[U1].has THEN <<U1>> ELSE <<>>)

\* getJiraIssuesUpdated: line 1161 returns [] when unconfigured; a failed
\* search is an empty list (line 1195).
getJiraIssuesUpdated(c, net) ==
    IF JiraUnconfigured(c) THEN Returned(<<>>)
    ELSE IF net # "up" THEN Returned(<<>>)
    ELSE Returned(<<"issue">>)

\* getJiraSprints: line 833 returns [] when unconfigured; a non-OK answer
\* ends the loop (line 849); a rejected fetch is not caught.
getJiraSprints(c, net) ==
    IF JiraUnconfigured(c) THEN Returned(<<>>)
    ELSE IF net = "neterr" THEN Threw("fetch failed")
    ELSE IF net = "notok" THEN Returned(<<>>)
    ELSE Returned(<<"sprint">>)

\* getJiraSprintIssues: lines 887 and 919, as getJiraSprints.
getJiraSprintIssues(c, net) ==
    IF JiraUnconfigured(c) THEN Returned(<<>>)
    ELSE IF net = "neterr" THEN Threw("fetch failed")
    ELSE IF net = "notok" THEN Returned(<<>>)
    ELSE Returned(<<"issue">>)

\* stats GET with login, from and to given (lines 102-214): the PR search
\* is awaited outside the inner try blocks, so its error reaches the catch
\* of line 211; the Jira search is in its own try/catch.
StatsOutcome(c, net) ==
    LET prs == getGithubPRsWithStats(c, net)
        jira == getJiraIssuesUpdated(c, net)
    IN  IF prs.kind = "threw"
        THEN [status |-> 500, error |-> prs.message, prs |-> <<>>,
              tickets |-> <<>>]
        ELSE [status |-> 200, error |-> "", prs |-> prs.items,
              tickets |-> IF jira.kind = "threw" THEN <<>> ELSE jira.items]

Collaborators ==
    {"getGithubPRsWithStats", "getGithubOrgMembers", "getGithubPRStatsByUrls",
     "getJiraIssuesUpdated", "getJiraSprints", "getJiraSprintIssues"}

CfgOutIdle ==
    /\ cfgCalled = "none" /\ cfgOut = Returned(<<>>)
    /\ cfgResponse = [status |-> 0, error |-> "", prs |-> <<>>,
                      tickets |-> <<>>]

CfgIdle == cfgEnv = <<>> /\ cfgNet = "up" /\ CfgOutIdle

CfgInit == cfgEnv \in Configs /\ cfgNet \in NetKinds /\ CfgOutIdle

CfgReady == cfgCalled = "none" /\ cfgEnv # <<>>

CallGithubPRsWithStats ==
    /\ CfgReady
    /\ cfgCalled' = "getGithubPRsWithStats"
    /\ cfgOut' = getGithubPRsWithStats(cfgEnv, cfgNet)
    /\ UNCHANGED <<cfgEnv, cfgNet, cfgResponse>>
    /\ UNCHANGED notCfg

CallGithubOrgMembers ==
    /\ CfgReady
    /\ cfgCalled' = "getGithubOrgMembers"
    /\ cfgOut' = getGithubOrgMembers(cfgEnv, cfgNet)
    /\ UNCHANGED <<cfgEnv, cfgNet, cfgResponse>>
    /\ UNCHANGED notCfg

CallGithubPRStatsByUrls ==
    /\ CfgReady
    /\ cfgCalled' = "getGithubPRStatsByUrls"
    /\ cfgOut' = PRStatsOutcome(cfgEnv, cfgNet)
    /\ UNCHANGED <<cfgEnv, cfgNet, cfgResponse>>
    /\ UNCHANGED notCfg

CallJiraIssuesUpdated ==
    /\ CfgReady
    /\ cfgCalled' = "getJiraIssuesUpdated"
    /\ cfgOut' = getJiraIssuesUpdated(cfgEnv, cfgNet)
    /\ UNCHANGED <<cfgEnv, cfgNet, cfgResponse>>
    /\ UNCHANGED notCfg

CallJiraSprints ==
    /\ CfgReady
    /\ cfgCalled' = "getJiraSprints"
    /\ cfgOut' = getJiraSprints(cfgEnv, cfgNet)
    /\ UNCHANGED <<cfgEnv, cfgNet, cfgResponse>>
    /\ UNCHANGED notCfg

CallJiraSprintIssues ==
    /\ CfgReady
    /\ cfgCalled' = "getJiraSprintIssues"
    /\ cfgOut' = getJiraSprintIssues(cfgEnv, cfgNet)
    /\ UNCHANGED <<cfgEnv, cfgNet, cfgResponse>>
    /\ UNCHANGED notCfg

\* A stats request of an authenticated user with login, from and to.
StatsRequest ==
    /\ CfgReady
    /\ cfgCalled' = "stats"
    /\ cfgResponse' = StatsOutcome(cfgEnv, cfgNet)
    /\ UNCHANGED <<cfgEnv, cfgNet, cfgOut>>
    /\ UNCHANGED notCfg

(***************************************************************************)
(* Request validation of the API routes: sprint-stats, sprint-stats/stream,*)
(* stats and sprints.                                                      *)
(***************************************************************************)
\* Number(s) for the query values that occur.
NumberOf ==
    [s \in {"7", "12", "abc", "0"} |->
        CASE s = "7" -> JsInt(7) [] s = "12" -> JsInt(12)
          [] s = "0" -> JsInt(0) [] s = "abc" -> JsNaN]

\* !x for a query value: null and the empty string are falsy.
NoValue(x) == x = Undefined \/ x = ""

\* !n || Number.isNaN(n) for an optional number.
NoNumber(n) == n.k \in {"null", "nan"} \/ (n.k = "num" /\ n.num = 0)

JsonError(status) == [status |-> status, type |-> "json", error |-> TRUE]
JsonOk == [status |-> 200, type |-> "json", error |-> FALSE]
TextError(status) == [status |-> status, type |-> "text", error |-> FALSE]
EventStream == [status |-> 200, type |-> "event-stream", error |-> FALSE]
NoResponse == [status |-> 0, type |-> "none", error |-> FALSE]

\* requireAuthOr401 (lib/auth lines 88-94), on the user the cookie verifies
\* as.
Unauthorized(user) == user = Undefined

\* sprint-stats GET, lines 663-679 and 990-993.
SprintStatsResponse(q, user, up) ==
    IF Unauthorized(user) THEN JsonError(401)
    ELSE IF NoValue(q.sprintId) THEN JsonError(400)
    ELSE IF up.meta = "null" THEN JsonError(404)
    ELSE IF up.assembly = "throws" THEN JsonError(500)
    ELSE JsonOk

\* sprint-stats/stream GET, lines 9-16 and 78-84.
StreamResponse(q, user) ==
    IF Unauthorized(user) THEN JsonError(401)
    ELSE IF NoValue(q.sprintId) THEN TextError(400)
    ELSE EventStream

\* stats GET, lines 85-99 and 210-214; searchParams.get(..) ?? ''.
StatsResponse(q, user, up) ==
    IF Unauthorized(user) THEN JsonError(401)
    ELSE IF NoValue(q.login) \/ NoValue(q.from) \/ NoValue(q.to)
         THEN JsonError(400)
    ELSE IF up.assembly = "throws" THEN JsonError(500)
    ELSE JsonOk

\* sprints GET, lines 16-18: the board id of the request.
BoardIdOf(q, envBoard) ==
    IF ~NoValue(q.boardId) THEN NumberOf[q.boardId]
    ELSE IF envBoard # "" THEN NumberOf[envBoard] ELSE JsNull

\* sprints GET, lines 10-37: both the missing board id and a failure of
\* getJiraSprints are answered by NextResponse.json without a status.
SprintsResponse(q, envBoard, user, up) ==
    IF Unauthorized(user) THEN JsonError(401)
    ELSE IF NoNumber(BoardIdOf(q, envBoard)) THEN JsonOk
    ELSE IF up.assembly = "throws" THEN JsonOk
    ELSE JsonOk

Queries ==
    [sprintId : {Undefined, "", "12"}, login : {Undefined, "alice"},
     from : {Undefined, "2024-01-01"}, to : {Undefined, "2024-01-31"},
     boardId : {Undefined, "7", "abc", "0"}]
Upstreams == [meta : {"found", "null"}, assembly : {"ok", "throws"}]

ReqOutIdle == reqEndpoint = "none" /\ reqResponse = NoResponse
ReqIdle ==
    /\ reqQuery = <<>> /\ reqEnvBoard = "" /\ reqUser = Undefined
    /\ reqUpstream = <<>> /\ ReqOutIdle
ReqInit ==
    /\ reqQuery \in Queries /\ reqEnvBoard \in {"", "7"}
    /\ reqUser \in {Undefined, "alice"} /\ reqUpstream \in Upstreams
    /\ ReqOutIdle
ReqPending == reqEndpoint = "none" /\ reqQuery # <<>>

SprintStatsGET ==
    /\ ReqPending
    /\ reqEndpoint' = "sprint-stats"
    /\ reqResponse' = SprintStatsResponse(reqQuery, reqUser, reqUpstream)
    /\ UNCHANGED <<reqQuery, reqEnvBoard, reqUser, reqUpstream>>
    /\ UNCHANGED notReq

SprintStatsStreamGET ==
    /\ ReqPending
    /\ reqEndpoint' = "sprint-stats/stream"
    /\ reqResponse' = StreamResponse(reqQuery, reqUser)
    /\ UNCHANGED <<reqQuery, reqEnvBoard, reqUser, reqUpstream>>
    /\ UNCHANGED notReq

StatsGET ==
    /\ ReqPending
    /\ reqEndpoint' = "stats"
    /\ reqResponse' = StatsResponse(reqQuery, reqUser, reqUpstream)
    /\ UNCHANGED <<reqQuery, reqEnvBoard, reqUser, reqUpstream>>
    /\ UNCHANGED notReq

SprintsGET ==
    /\ ReqPending
    /\ reqEndpoint' = "sprints"
    /\ reqResponse' = SprintsResponse(reqQuery, reqEnvBoard, reqUser,
                                      reqUpstream)
    /\ UNCHANGED <<reqQuery, reqEnvBoard, reqUser, reqUpstream>>
    /\ UNCHANGED notReq

(***************************************************************************)
(* middleware and the signed cookie (middleware.ts, lib/auth).             *)
(***************************************************************************)
\* Paths are sequences of characters, so that startsWith is computed.
PathRoot == <<"/">>
PathLogin ==
    <<"/", "a", "p", "i", "/", "a", "u", "t", "h", "/", "l", "o", "g",
      "i", "n">>
PathLogout ==
    <<"/", "a", "p", "i", "/", "a", "u", "t", "h", "/", "l", "o", "g",
      "o", "u", "t">>
PathFavicon == <<"/", "f", "a", "v", "i", "c", "o", "n", ".", "i", "c", "o">>
PathNextStatic ==
    <<"/", "_", "n", "e", "x", "t", "/", "s", "t", "a", "t", "i", "c",
      "/", "a">>
PathNextData == <<"/", "_", "n", "e", "x", "t", "/", "a">>
PathAssets == <<"/", "a", "s", "s", "e", "t", "s", "/", "a">>
PathImages == <<"/", "i", "m", "a", "g", "e", "s", "/", "a">>
PathApiStats == <<"/", "a", "p", "i", "/", "s", "t", "a", "t", "s">>
PathApiBare == <<"/", "a", "p", "i">>
PathSprint == <<"/", "s", "p", "r", "i", "n", "t">>
Paths ==
    {PathRoot, PathLogin, PathLogout, PathFavicon, PathNextStatic, PathNextData,
     PathAssets, PathImages, PathApiStats, PathApiBare, PathSprint}

\* The prefixes the middleware and its matcher test.
PrefixNext == <<"/", "_", "n", "e", "x", "t">>
PrefixAssets == <<"/", "a", "s", "s", "e", "t", "s">>
PrefixImages == <<"/", "i", "m", "a", "g", "e", "s">>
PrefixApi == <<"/", "a", "p", "i", "/">>
ExcludeNextStatic ==
    <<"/", "_", "n", "e", "x", "t", "/", "s", "t", "a", "t", "i", "c">>
ExcludeNextImage ==
    <<"/", "_", "n", "e", "x", "t", "/", "i", "m", "a", "g", "e">>
ExcludeFavicon ==
    <<"/", "f", "a", "v", "i", "c", "o", "n", ".", "i", "c", "o">>

\* pathname.startsWith(prefix)
StartsWith(s, prefix) ==
    Len(s) >= Len(prefix) /\ SubSeq(s, 1, Len(prefix)) = prefix

\* PUBLIC_PATHS
PUBLIC_PATHS == {PathRoot, PathLogin, PathLogout, PathFavicon}

\* config.matcher: '/((?!_next/static|_next/image|favicon.ico).*)' -- the
\* middleware runs for the paths that do not start with one of the three.
MatcherExcludes(pathname) ==
    \/ StartsWith(pathname, ExcludeNextStatic)
    \/ StartsWith(pathname, ExcludeNextImage)
    \/ StartsWith(pathname, ExcludeFavicon)

\* process.env.AUTH_SECRET || 'dev-change-me'
Secrets == {"dev-change-me", "s3cret"}

\* A cookie value is the sequence of its pieces between '|' characters; the
\* absent cookie is the empty sequence, the empty string is <<"">>.  The
\* user name is what precedes the last '|', itself a sequence of pieces.
Usernames == {<<"">>, <<"alice">>, <<"a", "b">>, <<"alice", "x">>}

\* HMAC-SHA256(secret, username) in hex: a different digest for every
\* secret and user name.
HmacHex(secret, username) ==
    CASE secret = "dev-change-me" /\ username = <<"">> -> "5d3a"
      [] secret = "dev-change-me" /\ username = <<"alice">> -> "9f41"
      [] secret = "dev-change-me" /\ username = <<"a", "b">> -> "07c2"
      [] secret = "dev-change-me" /\ username = <<"alice", "x">> -> "e1b8"
      [] secret = "s3cret" /\ username = <<"">> -> "44d0"
      [] secret = "s3cret" /\ username = <<"alice">> -> "b6a7"
      [] secret = "s3cret" /\ username = <<"a", "b">> -> "2c9e"
      [] secret = "s3cret" /\ username = <<"alice", "x">> -> "73f5"

\* token.lastIndexOf('|') < 1: no '|' at all, or nothing before the only one.
NoUserPart(token) ==
    Len(token) <= 1 \/ (Len(token) = 2 /\ token[1] = "")

\* Mutant: any cookie with a user part is accepted.
verifyToken_noSignatureCheck(token, secret) ==
    IF token = <<>> \/ token = <<"">> THEN FALSE
    ELSE ~NoUserPart(token)

\* verifyToken (middleware lines 43-56; lib/auth lines 51-59 is the same
\* test and returns the user name).
verifyToken(token, secret) ==
    IF token = <<>> \/ token = <<"">> THEN FALSE
    ELSE IF NoUserPart(token) THEN FALSE
    ELSE LET username == SubSeq(token, 1, Len(token) - 1)
             sig == token[Len(token)]
         IN  HmacHex(secret, username) = sig

\* signToken (lib/auth lines 46-49)
signToken(username, secret) == Append(username, HmacHex(secret, username))

\* The cookies a request can carry: none, the empty string, a bare user
\* name, signed tokens under either secret, a forged or empty signature, a
\* signature for another user name, and a signed empty user name.
Tokens ==
    {<<>>, <<"">>, <<"alice">>, <<"alice", "">>, <<"alice", "9f40">>,
     <<"alice", "x", "9f41">>}
      \cup {signToken(u, s) : u \in Usernames, s \in Secrets}

NextResponseNext == [kind |-> "next", status |-> 0, next |-> <<>>]
Json401 == [kind |-> "json", status |-> 401, next |-> <<>>]
RedirectHome(pathname) ==
    [kind |-> "redirect", status |-> 307, next |-> pathname]
NoMwResponse == [kind |-> "none", status |-> 0, next |-> <<>>]

MwOutIdle == mwResponse = NoMwResponse /\ mwReached = FALSE /\ mwPc = "request"
MwIdle ==
    /\ mwPath = <<>> /\ mwToken = <<>> /\ mwSecret = "" /\ MwOutIdle
MwInit ==
    /\ mwPath \in Paths /\ mwToken \in Tokens /\ mwSecret \in Secrets
    /\ MwOutIdle
MwPending == mwPc = "request" /\ mwPath # <<>>
MwRuns == MwPending /\ ~MatcherExcludes(mwPath)
MwStatic(pathname) ==
    \/ StartsWith(pathname, PrefixNext)
    \/ StartsWith(pathname, PrefixAssets)
    \/ StartsWith(pathname, PrefixImages)
MwChecksCookie ==
    MwRuns /\ ~MwStatic(mwPath) /\ mwPath \notin PUBLIC_PATHS

\* The matcher leaves the request to the framework: no middleware runs.
MwNotMatched ==
    /\ MwPending /\ MatcherExcludes(mwPath)
    /\ mwReached' = TRUE /\ mwPc' = "responded"
    /\ UNCHANGED <<mwPath, mwToken, mwSecret, mwResponse>>
    /\ UNCHANGED notMw

\* Lines 68-70
MwPassStatic ==
    /\ MwRuns /\ MwStatic(mwPath)
    /\ mwResponse' = NextResponseNext
    /\ mwReached' = TRUE /\ mwPc' = "responded"
    /\ UNCHANGED <<mwPath, mwToken, mwSecret>>
    /\ UNCHANGED notMw

\* Line 71
MwPassPublic ==
    /\ MwRuns /\ ~MwStatic(mwPath) /\ mwPath \in PUBLIC_PATHS
    /\ mwResponse' = NextResponseNext
    /\ mwReached' = TRUE /\ mwPc' = "responded"
    /\ UNCHANGED <<mwPath, mwToken, mwSecret>>
    /\ UNCHANGED notMw

\* Lines 73-80
MwApiUnauthorized ==
    /\ MwChecksCookie /\ StartsWith(mwPath, PrefixApi)
    /\ ~verifyToken(mwToken, mwSecret)
    /\ mwResponse' = Json401
    /\ mwPc' = "responded"
    /\ UNCHANGED <<mwPath, mwToken, mwSecret, mwReached>>
    /\ UNCHANGED notMw

\* Lines 73-81
MwApiNext ==
    /\ MwChecksCookie /\ StartsWith(mwPath, PrefixApi)
    /\ verifyToken(mwToken, mwSecret)
    /\ mwResponse' = NextResponseNext
    /\ mwReached' = TRUE /\ mwPc' = "responded"
    /\ UNCHANGED <<mwPath, mwToken, mwSecret>>
    /\ UNCHANGED notMw

\* Lines 85-90
MwRedirect ==
    /\ MwChecksCookie /\ ~StartsWith(mwPath, PrefixApi)
    /\ ~verifyToken(mwToken, mwSecret)
    /\ mwResponse' = RedirectHome(mwPath)
    /\ mwPc' = "responded"
    /\ UNCHANGED <<mwPath, mwToken, mwSecret, mwReached>>
    /\ UNCHANGED notMw

\* Line 99 (line 93 cannot hold here: '/' is a public path)
MwPageNext ==
    /\ MwChecksCookie /\ ~StartsWith(mwPath, PrefixApi)
    /\ verifyToken(mwToken, mwSecret)
    /\ mwResponse' = NextResponseNext
    /\ mwReached' = TRUE /\ mwPc' = "responded"
    /\ UNCHANGED <<mwPath, mwToken, mwSecret>>
    /\ UNCHANGED notMw

(***************************************************************************)
(* computeLifecycle.                                                       *)
(***************************************************************************)
\* a ?? b on optional timestamps: b only when a is null or undefined.
Coalesce(a, b) == IF a.k = "null" THEN b ELSE a

\* p.readyForReviewAt ?? (p.isDraft ? null : p.createdAt)
ReadyAt(p) ==
    Coalesce(p.readyForReviewAt, IF p.isDraft THEN TsNull ELSE p.createdAt)

\* Mutant: the ready time is skipped as a start of the review.
ReviewToMergeHours_skipReady(firstRev, readyAt, createdAt, mergedAt) ==
    IF Falsy(mergedAt) THEN JsNull
    ELSE diffHours(Coalesce(firstRev, createdAt), mergedAt)

\* Line 1718: mergedAt ? diffHours(firstRev ?? readyAt ?? p.createdAt,
\* mergedAt) : null
ReviewToMergeHours(firstRev, readyAt, createdAt, mergedAt) ==
    IF Falsy(mergedAt) THEN JsNull
    ELSE diffHours(Coalesce(firstRev, Coalesce(readyAt, createdAt)),
                   mergedAt)

\* Lines 1686-1721: the lifecycle of one PR.
LifecycleItem(p, workStartedMap) ==
    LET readyAt == ReadyAt(p)
        firstRev == p.firstReviewAt
        mergedAt == p.mergedAt
        closedAt == p.closedAt
        endAt == Coalesce(mergedAt, closedAt)
        workStartedAt == workStartedMap[p.url]
    IN  [url |-> p.url, createdAt |-> p.createdAt,
         workStartedAt |-> workStartedAt, readyForReviewAt |-> readyAt,
         firstReviewAt |-> firstRev, mergedAt |-> mergedAt,
         closedAt |-> closedAt, isDraft |-> p.isDraft,
         timeToReadyHours |-> diffHours(p.createdAt, readyAt),
         timeToFirstReviewHours |-> diffHours(p.createdAt, firstRev),
         reviewToMergeHours |->
             ReviewToMergeHours(firstRev, readyAt, p.createdAt, mergedAt),
         cycleTimeHours |->
             IF Falsy(endAt) THEN JsNull ELSE diffHours(p.createdAt, endAt),
         inProgressToCreatedHours |->
             IF Falsy(workStartedAt) THEN JsNull
             ELSE diffHours(workStartedAt, p.createdAt)]

\* Mutant: only the PRs that have all five durations are counted.
DurationsOf_completeOnly(items, field) ==
    LET complete(it) ==
            /\ it.timeToReadyHours.k # "null"
            /\ it.timeToFirstReviewHours.k # "null"
            /\ it.reviewToMergeHours.k # "null"
            /\ it.cycleTimeHours.k # "null"
            /\ it.inProgressToCreatedHours.k # "null"
        keep == {i \in DOMAIN items : complete(items[i])}
        pick[i \in 0..Len(items)] ==
            IF i = 0 THEN <<>>
            ELSE IF i \in keep THEN Append(pick[i - 1], items[i][field].num)
            ELSE pick[i - 1]
    IN  pick[Len(items)]

\* Lines 1724-1728: items.map(i => i.<field>).filter(x => x !== null &&
\* x !== undefined), as numbers of milliseconds (each duration is a number
\* of milliseconds over 36e5).
DurationsOf(items, field) ==
    LET keep == {i \in DOMAIN items : items[i][field].k # "null"}
        pick[i \in 0..Len(items)] ==
            IF i = 0 THEN <<>>
            ELSE IF i \in keep THEN Append(pick[i - 1], items[i][field].num)
            ELSE pick[i - 1]
    IN  pick[Len(items)]

\* median over durations: the median of the milliseconds, over 36e5.
MedianHours(ms) ==
    LET r == median(ms).ret
    IN  IF r.k = "null" THEN JsNull ELSE JsNum(r.num, r.den * MsPerHour)

\* Lines 1730-1737
LifecycleStatsOf(items) ==
    [sampleSize |-> Len(items),
     medianTimeToReadyHours |->
         MedianHours(DurationsOf(items, "timeToReadyHours")),
     medianTimeToFirstReviewHours |->
         MedianHours(DurationsOf(items, "timeToFirstReviewHours")),
     medianReviewToMergeHours |->
         MedianHours(DurationsOf(items, "reviewToMergeHours")),
     medianCycleTimeHours |->
         MedianHours(DurationsOf(items, "cycleTimeHours")),
     medianInProgressToCreatedHours |->
         MedianHours(DurationsOf(items, "inProgressToCreatedHours"))]

computeLifecycle(prs, workStartedMap) ==
    LET items == [i \in DOMAIN prs |-> LifecycleItem(prs[i], workStartedMap)]
    IN  [items |-> items, stats |-> LifecycleStatsOf(items)]

AtHour(h) == TsIso(h * MsPerHour)

\* Any one PR: created at hour 2 or with an unreadable date, with or
\* without a ready event, draft or not, reviewed before or after its
\* creation or not at all, merged before or after or not at all.
LcAnyPR ==
    [url : {U1}, createdAt : {AtHour(2), TsBad},
     readyForReviewAt : {TsNull, AtHour(3)}, isDraft : BOOLEAN,
     firstReviewAt : {TsNull, TsEmpty, AtHour(4), AtHour(1)},
     mergedAt : {TsNull, TsEmpty, TsBad, AtHour(6), AtHour(3)},
     closedAt : {TsNull, AtHour(7)}]

LcPR(url, created, ready, draft, rev, merged, closed) ==
    [url |-> url, createdAt |-> created, readyForReviewAt |-> ready,
     isDraft |-> draft, firstReviewAt |-> rev, mergedAt |-> merged,
     closedAt |-> closed]

\* The PRs lists are made of: merged after review; merged without review;
\* open and reviewed; an open draft; closed unmerged; merged late.
LcShapes ==
    {LcPR(U1, AtHour(0), TsNull, FALSE, AtHour(1), AtHour(3), AtHour(3)),
     LcPR(U2, AtHour(0), AtHour(2), TRUE, TsNull, AtHour(4), AtHour(4)),
     LcPR(U2, AtHour(1), TsNull, FALSE, AtHour(2), TsNull, TsNull),
     LcPR(U3, AtHour(1), TsNull, TRUE, TsNull, TsNull, TsNull),
     LcPR(U3, AtHour(0), TsNull, FALSE, TsNull, TsNull, AtHour(5)),
     LcPR(U1, AtHour(0), TsNull, FALSE, AtHour(2), AtHour(8), AtHour(8))}

LcWorkStartedMaps ==
    {[u \in {U1, U2, U3} |-> TsNull],
     [u \in {U1, U2, U3} |-> IF u = U1 THEN AtHour(0) ELSE TsNull]}

NoLifecycle == [items |-> <<>>, stats |-> <<>>]
LcIdle ==
    /\ lcPrs = <<>> /\ lcWorkStarted = <<>> /\ lcOut = NoLifecycle
    /\ lcDone = FALSE
LcInit ==
    /\ \/ \E p \in LcAnyPR : lcPrs = <<p>>
       \/ lcPrs \in SeqsUpTo(LcShapes, MaxPrs)
    /\ lcWorkStarted \in LcWorkStartedMaps
    /\ lcOut = NoLifecycle /\ lcDone = FALSE

ComputeLifecycleCall ==
    /\ ~lcDone /\ lcWorkStarted # <<>>
    /\ lcOut' = computeLifecycle(lcPrs, lcWorkStarted)
    /\ lcDone' = TRUE
    /\ UNCHANGED <<lcPrs, lcWorkStarted>>
    /\ UNCHANGED notLc

(***************************************************************************)
(* The phase times of one issue as the sprint-stats route (lines 691-700)  *)
(* and the stats route (lines 137-145) copy them onto the issue.           *)
(***************************************************************************)
\* sprint-stats GET, lines 691-697: p = phaseTimes[it.key] ?? {}, copied
\* onto the issue.
MergePhaseTimes(points, p) ==
    [key |-> "PROJ-1", storyPoints |-> points,
     todoAt |-> p.todo, inProgressAt |-> p.inProgress,
     reviewAt |-> ReviewAtOf(p),
     completeAt |-> CompleteAtOf(p)]

\* The issue as the burn loop reads it: reviewAt and completeAt as merged.
BurnIssue(it) ==
    [key |-> it.key, storyPoints |-> it.storyPoints,
     review |-> it.reviewAt, complete |-> it.completeAt]

\* The sprint of the issue: days 1 .. MaxDay + 1, seen from its last evening.
RvStart == TsIso(Noon(1))
RvEnd == TsIso(Noon(MaxDay + 1))
RvNow == Evening(MaxDay + 1)

RvNoIssue ==
    [key |-> "", storyPoints |-> JsNull, todoAt |-> TsNull,
     inProgressAt |-> TsNull, reviewAt |-> TsNull, completeAt |-> TsNull]
RvNoTicket ==
    [key |-> "", inProgressAt |-> TsNull, reviewAt |-> TsNull,
     todoAt |-> TsNull, completeAt |-> TsNull,
     updatedBySelectedUserInWindow |-> FALSE]

RvOutIdle ==
    /\ rvSprintIssue = RvNoIssue /\ rvBurn = <<>> /\ rvStatsIssue = RvNoTicket
    /\ rvSprintPc = "merge" /\ rvStatsPc = "annotate"

RvIdle ==
    /\ rvPhase = NoEntry /\ rvFlag = FALSE /\ rvPoints = JsNull /\ RvOutIdle

\* One issue with any enumerated review and complete time, or with no entry
\* in the result of getIssuePhaseTimes.
RvInit ==
    /\ rvPhase \in {NoEntry} \cup
          {[has |-> TRUE, todo |-> TsIso(Noon(0)), inProgress |-> i,
            review |-> r, complete |-> c] :
              i \in {TsNull, TsIso(Noon(1))}, r \in SpTimes, c \in SpTimes}
    /\ rvFlag \in BOOLEAN
    /\ rvPoints \in SpPoints
    /\ RvOutIdle

\* sprint-stats GET, lines 691-700.
RvSprintMerge ==
    /\ rvSprintPc = "merge"
    /\ rvSprintIssue' = MergePhaseTimes(rvPoints, rvPhase)
    /\ rvSprintPc' = "burn"
    /\ UNCHANGED <<rvPhase, rvFlag, rvPoints, rvBurn, rvStatsIssue,
                   rvStatsPc>>
    /\ UNCHANGED notRv

\* sprint-stats GET, lines 817-893: the burn series of the issue.
RvSprintBurn ==
    /\ rvSprintPc = "burn"
    /\ rvBurn' = BurnSeries(<<BurnIssue(rvSprintIssue)>>, RvStart, RvEnd,
                            RvNow,
                            TotalScope(<<BurnIssue(rvSprintIssue)>>))
    /\ rvSprintPc' = "done"
    /\ UNCHANGED <<rvPhase, rvFlag, rvPoints, rvSprintIssue, rvStatsIssue,
                   rvStatsPc>>
    /\ UNCHANGED notRv

\* stats GET, lines 137-145.
RvStatsAnnotate ==
    /\ rvStatsPc = "annotate"
    /\ rvStatsIssue' =
          AnnotateIssue([key |-> "PROJ-1"],
                        [pt |-> rvPhase, updatedByActorInWindow |-> rvFlag])
    /\ rvStatsPc' = "done"
    /\ UNCHANGED <<rvPhase, rvFlag, rvPoints, rvSprintIssue, rvBurn,
                   rvSprintPc>>
    /\ UNCHANGED notRv

(***************************************************************************)
(* getGithubPRStatsByUrls (lib/github), lines 208-285, as the process it   *)
(* is: the requests of a chunk are started together, each completes at its *)
(* own time, and the loop goes on when Promise.all has resolved.  URLs are *)
(* numbered; JunkUrl is a URL that parsePullUrl rejects.                   *)
(***************************************************************************)
JunkUrl == 0
BtUrlIds == 0..(MaxRefs + 1)

\* parsePullUrl: null for a URL that is no pull request URL, the reference
\* with the URL as it was given otherwise.
parsePullUrl(url) ==
    IF url = JunkUrl THEN [ok |-> FALSE, url |-> url, number |-> 0]
    ELSE [ok |-> TRUE, url |-> url, number |-> url]

\* urls.map(parsePullUrl).filter(x => !!x)
RefsOf(urls) ==
    LET parsed == [i \in DOMAIN urls |-> parsePullUrl(urls[i])]
        keepAt == {i \in DOMAIN urls : parsed[i].ok}
        nth(k) == CHOOSE i \in keepAt :
                      Cardinality({j \in keepAt : j <= i}) = k
    IN  [k \in 1..Cardinality(keepAt) |-> parsed[nth(k)]]

\* const size = 10
ChunkSize == 10

\* for (let i = 0; i < refs.length; i += size)
\*     chunks.push(refs.slice(i, i + size))
ChunksOf(n, size) ==
    [k \in 1..((n + size - 1) \div size) |->
        [j \in 1..Min(size, n - (k - 1) * size) |-> (k - 1) * size + j]]

\* What GitHub answers for a pull request: its line counts.
PullRequestOf(ref) == StatsOf(ref.number, ref.number + 1)

\* Mutant: the result object is replaced by the request's own entry.
WriteSlot_replaceAll(out, ref, pr) ==
    [u \in DOMAIN out |-> IF u = ref.url THEN pr ELSE NoStats]

\* Line 275: out[ref.url] = { additions, deletions, reviewComments }
WriteSlot(out, ref, pr) == [out EXCEPT ![ref.url] = pr]

\* The async function of a request has returned.
Settled(status) == status \in {"ok", "failed"}

\* Mutant: the loop goes on when one request of the batch has settled.
BatchSettled_any(status, batch) ==
    \E j \in DOMAIN batch : Settled(status[batch[j]])

\* Line 246: await Promise.all(...) resolves when every async function of
\* the batch has returned; none of them rejects (try/catch, lines 248-279).
BatchSettled(status, batch) ==
    \A j \in DOMAIN batch : Settled(status[batch[j]])

BtEmptyOut == [u \in BtUrlIds |-> NoStats]

\* The lists of URLs: 1 .. n, the same after a URL that parses as no pull
\* request, and the same followed by its first URL once more.
BtDistinct(n) == [i \in 1..n |-> i]
BtUrlLists ==
    {BtDistinct(n) : n \in 0..MaxRefs}
    \cup {<<JunkUrl>> \o BtDistinct(n) : n \in {1, ChunkSize + 1}}
    \cup {BtDistinct(n) \o <<1>> : n \in {2, ChunkSize}}

BtOutIdle ==
    /\ btRefs = <<>> /\ btChunks = <<>> /\ btBatch = 1 /\ btStatus = <<>>
    /\ btOut = BtEmptyOut /\ btPc = "start"

BtIdle == btHasToken = FALSE /\ btUrls = <<>> /\ BtOutIdle

BtInit ==
    /\ btHasToken \in BOOLEAN
    /\ btUrls \in BtUrlLists
    /\ BtOutIdle

\* Line 211: if (!cfg.githubToken) return {}
BtNoToken ==
    /\ btPc = "start" /\ ~btHasToken
    /\ btPc' = "returned"
    /\ UNCHANGED <<btHasToken, btUrls, btRefs, btChunks, btBatch, btStatus,
                   btOut>>
    /\ UNCHANGED notBt

\* Lines 212-243: refs and chunks.
BtMakeChunks ==
    /\ btPc = "start" /\ btHasToken
    /\ btRefs' = RefsOf(btUrls)
    /\ btChunks' = ChunksOf(Len(RefsOf(btUrls)), ChunkSize)
    /\ btStatus' = [i \in DOMAIN RefsOf(btUrls) |-> "waiting"]
    /\ btPc' = "loop"
    /\ UNCHANGED <<btHasToken, btUrls, btBatch, btOut>>
    /\ UNCHANGED notBt

\* Lines 245-251: batch.map calls the async function of every ref of the
\* chunk, and each runs up to its fetch; then Promise.all is awaited.
BtStartBatch ==
    /\ btPc = "loop" /\ btBatch <= Len(btChunks)
    /\ btStatus' =
          [i \in DOMAIN btStatus |->
              IF \E j \in DOMAIN btChunks[btBatch] :
                     btChunks[btBatch][j] = i
              THEN "inflight" ELSE btStatus[i]]
    /\ btPc' = "await"
    /\ UNCHANGED <<btHasToken, btUrls, btRefs, btChunks, btBatch, btOut>>
    /\ UNCHANGED notBt

\* Lines 251-276: a request is answered with a pull request and its slot
\* is written.
BtRequestSucceeds ==
    /\ btPc = "await"
    /\ \E i \in DOMAIN btStatus :
          /\ btStatus[i] = "inflight"
          /\ btOut' = WriteSlot(btOut, btRefs[i], PullRequestOf(btRefs[i]))
          /\ btStatus' = [btStatus EXCEPT ![i] = "ok"]
    /\ UNCHANGED <<btHasToken, btUrls, btRefs, btChunks, btBatch, btPc>>
    /\ UNCHANGED notBt

\* Lines 251-279: fetch or resp.json() rejects (the empty catch), or the
\* answer holds no pull request with numeric line counts; nothing is
\* written.
BtRequestFails ==
    /\ btPc = "await"
    /\ \E i \in DOMAIN btStatus :
          /\ btStatus[i] = "inflight"
          /\ btStatus' = [btStatus EXCEPT ![i] = "failed"]
    /\ UNCHANGED <<btHasToken, btUrls, btRefs, btChunks, btBatch, btOut,
                   btPc>>
    /\ UNCHANGED notBt

\* Line 246: Promise.all has resolved; the next chunk.
BtBatchSettled ==
    /\ btPc = "await"
    /\ BatchSettled(btStatus, btChunks[btBatch])
    /\ btBatch' = btBatch + 1
    /\ btPc' = "loop"
    /\ UNCHANGED <<btHasToken, btUrls, btRefs, btChunks, btStatus, btOut>>
    /\ UNCHANGED notBt

\* Line 284: return out
BtReturn ==
    /\ btPc = "loop" /\ btBatch > Len(btChunks)
    /\ btPc' = "returned"
    /\ UNCHANGED <<btHasToken, btUrls, btRefs, btChunks, btBatch, btStatus,
                   btOut>>
    /\ UNCHANGED notBt

(***************************************************************************)
(* sprint-stats stream GET, lines 18-84: the async worker, the interval    *)
(* timer it sets, the request it sends to /api/sprint-stats, and the       *)
(* client that reads the event stream.  When the client closes the         *)
(* connection the readable side of the TransformStream is cancelled and    *)
(* the writer is errored; write() and close() on a writer that is closed   *)
(* or errored reject.                                                      *)
(***************************************************************************)
\* The label of an event: 'Starting…', stages[i] (i from 0) or 'Done'.
LabelStarting == "Starting"
LabelDone == "Done"
StageLabel(i) == <<"stage", i>>

\* Line 22: progress(pct, label) hands this event to write.
ProgressEvent(pct, label) ==
    [type |-> "progress", pct |-> Max(0, Min(100, pct)), label |-> label]
DoneEvent == [type |-> "done", pct |-> 0, label |-> ""]
ErrorEvent == [type |-> "error", pct |-> 0, label |-> ""]

\* Mutant: tick without the cap.
TickPct_noCap(pct) == pct + 2

\* Line 46: pct = Math.min(95, pct + 2)
TickPct(pct) == Min(95, pct + 2)

\* Line 47: if (pct >= ((stageIdx + 1) * 95) / stages.length
\*              && stageIdx < stages.length - 1) stageIdx += 1
TickStage(pct, stageIdx) ==
    IF pct * 5 >= (stageIdx + 1) * 95 /\ stageIdx < 5 - 1
    THEN stageIdx + 1 ELSE stageIdx

\* writer.write(...) for each of the events: accepted while the writer is
\* open.
Written(sent, writer, events) ==
    IF writer = "open" THEN sent \o events ELSE sent

\* writer.close(): an open writer is closed; on a closed or errored writer
\* the call rejects and changes nothing.
Closed(writer) == IF writer = "open" THEN "closed" ELSE writer

\* Mutant: the request to /api/sprint-stats is aborted with the connection.
AfterClientClose_abort(upstream) ==
    IF upstream = "running" THEN "aborted" ELSE upstream

\* Lines 54-56: fetch(apiUrl, { headers }) is given no signal, and the
\* request's signal is never read: the client's closing leaves the request
\* to /api/sprint-stats as it is.
AfterClientClose(upstream) == upstream

\* How the request to /api/sprint-stats can end: fetch rejects; an OK
\* response whose body parses or does not; a non-OK response whose text
\* can be read or cannot.
UpstreamOutcomes == {"throws", "ok", "okBadBody", "notOk", "notOkBadBody"}

SsIdle ==
    /\ ssClient = "connected" /\ ssWriter = "open" /\ ssUpstream = "none"
    /\ ssTimer = FALSE /\ ssPct = 0 /\ ssStageIdx = 0 /\ ssSent = <<>>
    /\ ssCloseCalls = 0 /\ ssLateWrite = FALSE /\ ssTerminals = 0
    /\ ssPc = "idle"

\* An authorized request with a sprintId: the stream was made and the
\* worker is about to run.
SsInit ==
    /\ ssClient = "connected" /\ ssWriter = "open" /\ ssUpstream = "none"
    /\ ssTimer = FALSE /\ ssPct = 0 /\ ssStageIdx = 0 /\ ssSent = <<>>
    /\ ssCloseCalls = 0 /\ ssLateWrite = FALSE /\ ssTerminals = 0
    /\ ssPc = "start"

\* The worker writes events and then calls writer.close() closeCalls times.
SsWrites(events, terminals, closeCalls) ==
    /\ ssSent' = Written(ssSent, ssWriter, events)
    /\ ssLateWrite' = (ssLateWrite \/ (ssCloseCalls > 0 /\ events # <<>>))
    /\ ssTerminals' = ssTerminals + terminals
    /\ ssCloseCalls' = ssCloseCalls + closeCalls
    /\ ssWriter' = IF closeCalls > 0 THEN Closed(ssWriter) ELSE ssWriter

\* Lines 39-56: progress(1, 'Starting…'), setInterval(tick, 700), and the
\* request to /api/sprint-stats is sent.
SsStart ==
    /\ ssPc = "start"
    /\ SsWrites(<<ProgressEvent(1, LabelStarting)>>, 0, 0)
    /\ ssTimer' = TRUE
    /\ ssUpstream' = "running"
    /\ ssPc' = "fetch"
    /\ UNCHANGED <<ssClient, ssPct, ssStageIdx>>
    /\ UNCHANGED notSs

\* Lines 42-47: the timer fires and tick raises pct.
SsTick ==
    /\ ssTimer /\ ssPct < 95
    /\ ssPct' = TickPct(ssPct)
    /\ ssStageIdx' = TickStage(TickPct(ssPct), ssStageIdx)
    /\ SsWrites(<<ProgressEvent(TickPct(ssPct),
                                StageLabel(TickStage(TickPct(ssPct),
                                                     ssStageIdx)))>>, 0, 0)
    /\ UNCHANGED <<ssClient, ssUpstream, ssTimer, ssPc>>
    /\ UNCHANGED notSs

\* Line 43: the timer fires and tick returns at once, if (pct >= 95) return.
SsTickAtCap ==
    /\ ssTimer /\ ssPct >= 95
    /\ UNCHANGED ssVars
    /\ UNCHANGED notSs

\* The request to /api/sprint-stats ends.
SsUpstreamEnds ==
    /\ ssUpstream = "running"
    /\ ssUpstream' \in UpstreamOutcomes
    /\ UNCHANGED <<ssClient, ssWriter, ssTimer, ssPct, ssStageIdx, ssSent,
                   ssCloseCalls, ssLateWrite, ssTerminals, ssPc>>
    /\ UNCHANGED notSs

\* Lines 54-60 and 67: fetch resolved; clearInterval(timer), then the body
\* is read as text (non-OK) or as JSON (OK).
SsFetchResolved ==
    /\ ssPc = "fetch"
    /\ ssUpstream \in {"ok", "okBadBody", "notOk", "notOkBadBody"}
    /\ ssTimer' = FALSE
    /\ ssPc' = IF ssUpstream \in {"ok", "okBadBody"} THEN "json" ELSE "text"
    /\ UNCHANGED <<ssClient, ssWriter, ssUpstream, ssPct, ssStageIdx, ssSent,
                   ssCloseCalls, ssLateWrite, ssTerminals>>
    /\ UNCHANGED notSs

\* Lines 54 and 70-75: fetch rejected; the catch writes the error and the
\* finally calls writer.close().  clearInterval is not reached.
SsFetchRejected ==
    /\ ssPc = "fetch" /\ ssUpstream = "throws"
    /\ SsWrites(<<ErrorEvent>>, 1, 1)
    /\ ssPc' = "closing"
    /\ UNCHANGED <<ssClient, ssUpstream, ssTimer, ssPct, ssStageIdx>>
    /\ UNCHANGED notSs

\* Lines 67-69 and 73-75: the body parsed; progress(100, 'Done'), the
\* 'done' event, and the finally calls writer.close().
SsJsonParsed ==
    /\ ssPc = "json" /\ ssUpstream = "ok"
    /\ SsWrites(<<ProgressEvent(100, LabelDone), DoneEvent>>, 1, 1)
    /\ ssPc' = "closing"
    /\ UNCHANGED <<ssClient, ssUpstream, ssTimer, ssPct, ssStageIdx>>
    /\ UNCHANGED notSs

\* Lines 67 and 70-75: resp.json() rejected.
SsJsonRejected ==
    /\ ssPc = "json" /\ ssUpstream = "okBadBody"
    /\ SsWrites(<<ErrorEvent>>, 1, 1)
    /\ ssPc' = "closing"
    /\ UNCHANGED <<ssClient, ssUpstream, ssTimer, ssPct, ssStageIdx>>
    /\ UNCHANGED notSs

\* Lines 61-63: the text of the non-OK response was read; the 'error'
\* event, and writer.close() is called and awaited inside the try.
SsTextRead ==
    /\ ssPc = "text" /\ ssUpstream = "notOk"
    /\ SsWrites(<<ErrorEvent>>, 1, 1)
    /\ ssPc' = IF ssWriter = "open" THEN "closedInTry" ELSE "closeFailedInTry"
    /\ UNCHANGED <<ssClient, ssUpstream, ssTimer, ssPct, ssStageIdx>>
    /\ UNCHANGED notSs

\* Lines 61 and 70-75: resp.text() rejected.
SsTextRejected ==
    /\ ssPc = "text" /\ ssUpstream = "notOkBadBody"
    /\ SsWrites(<<ErrorEvent>>, 1, 1)
    /\ ssPc' = "closing"
    /\ UNCHANGED <<ssClient, ssUpstream, ssTimer, ssPct, ssStageIdx>>
    /\ UNCHANGED notSs

\* Lines 63-64 and 73-75: the close of line 63 resolved; return, and the
\* finally calls writer.close() again.
SsReturnInTry ==
    /\ ssPc = "closedInTry"
    /\ SsWrites(<<>>, 0, 1)
    /\ ssPc' = "closing"
    /\ UNCHANGED <<ssClient, ssUpstream, ssTimer, ssPct, ssStageIdx>>
    /\ UNCHANGED notSs

\* Lines 63 and 70-75: the close of line 63 rejected (the writer was
\* errored); the catch writes an 'error' event, the finally calls
\* writer.close().
SsCloseRejectedInTry ==
    /\ ssPc = "closeFailedInTry"
    /\ SsWrites(<<ErrorEvent>>, 1, 1)
    /\ ssPc' = "closing"
    /\ UNCHANGED <<ssClient, ssUpstream, ssTimer, ssPct, ssStageIdx>>
    /\ UNCHANGED notSs

\* Line 74: the close of the finally settles and the worker ends.
SsWorkerEnds ==
    /\ ssPc = "closing"
    /\ ssPc' = "ended"
    /\ UNCHANGED <<ssClient, ssWriter, ssUpstream, ssTimer, ssPct, ssStageIdx,
                   ssSent, ssCloseCalls, ssLateWrite, ssTerminals>>
    /\ UNCHANGED notSs

\* The client closes the connection (page.tsx: es.close()).
SsClientCloses ==
    /\ ssPc # "idle" /\ ssClient = "connected"
    /\ ssClient' = "closed"
    /\ ssWriter' = IF ssWriter = "open" THEN "errored" ELSE ssWriter
    /\ ssUpstream' = AfterClientClose(ssUpstream)
    /\ UNCHANGED <<ssTimer, ssPct, ssStageIdx, ssSent, ssCloseCalls,
                   ssLateWrite, ssTerminals, ssPc>>
    /\ UNCHANGED notSs

(***************************************************************************)
(* sprint-stats GET, lines 828-859: the completed story points of the      *)
(* sprint and their split by assignee.  An assignee is a string; the empty *)
(* string stands for a missing assignee as well.                           *)
(***************************************************************************)
\* String.prototype.trim on the assignee names of the model.
TrimName ==
    ("" :> "") @@ ("  " :> "") @@ ("alice" :> "alice")
    @@ (" alice" :> "alice") @@ ("Unassigned" :> "Unassigned")

\* Line 842: it.assignee && it.assignee.trim().length > 0
\*               ? it.assignee : 'Unassigned'
WhoOf(it) ==
    IF it.assignee # "" /\ TrimName[it.assignee] # "" THEN it.assignee
    ELSE "Unassigned"

\* Line 828: effectiveEnd
EffectiveEnd(end, now) ==
    IF ~Falsy(end) /\ end.ms < now THEN end.ms ELSE now

\* it.reviewAt && new Date(it.reviewAt) <= effectiveEnd, and the same for
\* completeAt: the positions of the issues counted on a track.
CountedOn(issues, track, effectiveEnd) ==
    {i \in DOMAIN issues :
        LET at == IF track = "dev" THEN issues[i].reviewAt
                  ELSE issues[i].completeAt
        IN  ~Falsy(at) /\ at.ms <= effectiveEnd}

\* Lines 830-836: devCompletedSP and completeCompletedSP.
CompletedSP(issues, track, effectiveEnd) ==
    LET I == CountedOn(issues, track, effectiveEnd)
    IN  SumOver([i \in I |-> sp(issues[i])], I, 0)

\* The keys of byAssigneeDev or byAssigneeComplete, in insertion order.
KeysOf(issues, track, effectiveEnd) ==
    LET I == CountedOn(issues, track, effectiveEnd)
        nth(k) == CHOOSE i \in I : Cardinality({j \in I : j <= i}) = k
    IN  Unique([k \in 1..Cardinality(I) |-> WhoOf(issues[nth(k)])])

\* byAssigneeDev.get(name) ?? 0, byAssigneeComplete.get(name) ?? 0
PointsOf(issues, track, effectiveEnd, name) ==
    LET I == {i \in CountedOn(issues, track, effectiveEnd) :
                 WhoOf(issues[i]) = name}
    IN  SumOver([i \in I |-> sp(issues[i])], I, 0)

\* Mutant: the rows are made for the names of the dev track only.
AllNames_devOnly(issues, effectiveEnd) ==
    KeysOf(issues, "dev", effectiveEnd)

\* Line 851: new Set([...byAssigneeDev.keys(), ...byAssigneeComplete.keys()])
AllNames(issues, effectiveEnd) ==
    Unique(KeysOf(issues, "dev", effectiveEnd)
           \o KeysOf(issues, "complete", effectiveEnd))

\* Line 858: the comparator, b.completePoints - a.completePoints
\*                           || b.devPoints - a.devPoints, is negative.
RowBefore(a, b) ==
    \/ a.completePoints > b.completePoints
    \/ a.completePoints = b.completePoints /\ a.devPoints > b.devPoints

\* Array.prototype.sort (stable) with that comparator.
RECURSIVE SortRows(_)
SortRows(rows) ==
    IF rows = <<>> THEN <<>>
    ELSE LET n == Len(rows)
             sorted == SortRows(SubSeq(rows, 1, n - 1))
             after == {i \in DOMAIN sorted : RowBefore(rows[n], sorted[i])}
             at == IF after = {} THEN n
                   ELSE CHOOSE i \in after : \A j \in after : i <= j
         IN  SubSeq(sorted, 1, at - 1) \o <<rows[n]>>
                 \o SubSeq(sorted, at, n - 1)

\* Lines 851-858: completedByAssignee.
CompletedByAssignee(issues, effectiveEnd) ==
    LET names == AllNames(issues, effectiveEnd)
    IN  SortRows([k \in DOMAIN names |->
                    [assignee |-> names[k],
                     devPoints |-> PointsOf(issues, "dev", effectiveEnd,
                                            names[k]),
                     completePoints |-> PointsOf(issues, "complete",
                                                 effectiveEnd, names[k])]])

AssigneeNames == {"", "  ", "alice", " alice", "Unassigned"}

AsIssue(who, points, reviewAt, completeAt) ==
    [assignee |-> who, storyPoints |-> points, reviewAt |-> reviewAt,
     completeAt |-> completeAt]

AsNoKpis == [devCompletedSP |-> 0, completeCompletedSP |-> 0]

AsOutIdle == asKpis = AsNoKpis /\ asRows = <<>> /\ asPc = "totals"

AsIdle == asIssues = <<>> /\ asEnd = TsNull /\ asNow = 0 /\ AsOutIdle

\* Three issues: the first with any assignee, story points and times, the
\* second of alice or of nobody, the third of alice and completed on day 1.
AsInit ==
    /\ \E w1 \in AssigneeNames, p1 \in SpPoints, r1 \in SpTimes,
          c1 \in SpTimes, w2 \in {"alice", ""}, c2 \in {TsNull, TsIso(Noon(1))} :
          asIssues =
              << AsIssue(w1, p1, r1, c1),
                 AsIssue(w2, JsInt(2), c2, c2),
                 AsIssue("alice", JsInt(5), TsIso(Noon(1)), TsIso(Noon(1))) >>
    /\ asEnd \in {TsNull, TsIso(Noon(2)), TsIso(Noon(MaxDay + 1))}
    /\ asNow = Evening(MaxDay)
    /\ AsOutIdle

\* Lines 828-838: effectiveEnd and the completed story points.
AsTotals ==
    /\ asPc = "totals"
    /\ asKpis' =
          [devCompletedSP |->
               CompletedSP(asIssues, "dev", EffectiveEnd(asEnd, asNow)),
           completeCompletedSP |->
               CompletedSP(asIssues, "complete", EffectiveEnd(asEnd, asNow))]
    /\ asPc' = "rows"
    /\ UNCHANGED <<asIssues, asEnd, asNow, asRows>>
    /\ UNCHANGED notAs

\* Lines 840-858: the two maps and completedByAssignee.
AsByAssignee ==
    /\ asPc = "rows"
    /\ asRows' = CompletedByAssignee(asIssues, EffectiveEnd(asEnd, asNow))
    /\ asPc' = "done"
    /\ UNCHANGED <<asIssues, asEnd, asNow, asKpis>>
    /\ UNCHANGED notAs

(***************************************************************************)
(* The data API handlers and lib/auth's requireAuthOr401.  A cookie header *)
(* is the sequence of its parts between ';'; a part is a name and the      *)
(* fields that follow it between '=' characters; a field is a              *)
(* percent-encoded text, here the token it decodes to together with how it *)
(* is written.                                                             *)
(***************************************************************************)
COOKIE_NAME == "dpd_auth"

DataEndpoints ==
    {"stats", "sprint-stats", "sprint-stats/stream", "sprints", "projects",
     "users"}

\* A field written without escapes, one whose '|' is written %7C, and one
\* that ends in a lone '%'.
Plain(token) == [enc |-> "plain", token |-> token]
Escaped(token) == [enc |-> "escaped", token |-> token]
Malformed == [enc |-> "malformed", token |-> <<"%">>]

CookiePart(name, fields) == [name |-> name, fields |-> fields]

Thrown == [k |-> "thrown", user |-> <<>>]
NoUser == [k |-> "null", user |-> <<>>]
User(username) == [k |-> "user", user |-> username]

\* decodeURIComponent: a URIError on a malformed escape, else the text.
decodeURIComponent(field) ==
    IF field.enc = "malformed" THEN Thrown ELSE User(field.token)

\* part.split('=')[1] || '': the text between the first and the second '='.
TokenField(part) ==
    IF Len(part.fields) = 0 THEN Plain(<<"">>) ELSE part.fields[1]

\* cookie.split(';').map(trim).find(s => s.startsWith('dpd_auth=')): the
\* first such part, 0 when there is none.
FindAuthPart(cookie) ==
    IF \E i \in DOMAIN cookie : cookie[i].name = COOKIE_NAME
    THEN CHOOSE i \in DOMAIN cookie :
             /\ cookie[i].name = COOKIE_NAME
             /\ \A j \in 1..(i - 1) : cookie[j].name # COOKIE_NAME
    ELSE 0

\* userFromRequest (lib/auth lines 79-85) with verifyToken (lines 51-59).
userFromRequest(cookie, secret) ==
    LET i == FindAuthPart(cookie)
    IN  IF i = 0 THEN NoUser
        ELSE LET decoded == decodeURIComponent(TokenField(cookie[i]))
             IN  IF decoded.k = "thrown" THEN Thrown
                 ELSE IF verifyToken(decoded.user, secret)
                      THEN User(SubSeq(decoded.user, 1,
                                       Len(decoded.user) - 1))
                      ELSE NoUser

\* What a handler does: the collaborators it called and the status of its
\* answer.
Outcome(calls, status) == [calls |-> calls, status |-> status]

\* `const auth = await requireAuthOr401(req); if (auth instanceof Response)
\* return auth;` followed by the rest of the handler.  The statement stands
\* before the handler's try block, so an exception of userFromRequest
\* rejects GET and the framework answers 500.
AfterAuth(cookie, secret, rest) ==
    LET user == userFromRequest(cookie, secret)
    IN  IF user.k = "thrown" THEN Outcome({}, 500)
        ELSE IF user.k = "null" THEN Outcome({}, 401)
        ELSE rest

\* stats GET, lines 85-100 and the outer catch.
StatsHandler(cookie, secret, query, upstream) ==
    AfterAuth(cookie, secret,
              IF query = "missing" THEN Outcome({}, 400)
              ELSE IF upstream = "fails" THEN Outcome({"github"}, 500)
              ELSE Outcome({"github", "jira"}, 200))

\* sprint-stats GET, lines 663-679 and 990-993.
SprintStatsHandler(cookie, secret, query, upstream) ==
    AfterAuth(cookie, secret,
              IF query = "missing" THEN Outcome({}, 400)
              ELSE IF upstream = "fails" THEN Outcome({"jira"}, 500)
              ELSE Outcome({"jira", "github"}, 200))

\* sprint-stats/stream GET, lines 10-84: the answer is the event stream
\* whatever the endpoint does.
StreamHandler(cookie, secret, query, upstream) ==
    AfterAuth(cookie, secret,
              IF query = "missing" THEN Outcome({}, 400)
              ELSE Outcome({"sprint-stats"}, 200))

\* sprints GET, lines 10-38.
SprintsHandler(cookie, secret, query, upstream) ==
    AfterAuth(cookie, secret,
              IF query = "missing" THEN Outcome({}, 200)
              ELSE Outcome({"jira"}, 200))

\* projects GET, lines 9-23.
ProjectsHandler(cookie, secret, query, upstream) ==
    AfterAuth(cookie, secret, Outcome({"jira"}, 200))

\* users GET, lines 26-57: GitHub's members, then Jira's users.
UsersHandler(cookie, secret, query, upstream) ==
    AfterAuth(cookie, secret, Outcome({"github", "jira"}, 200))

\* The cookie headers a request can carry: none, another cookie only,
\* dpd_auth with nothing after '=', with every token of Tokens, with a
\* signed token written with %7C, with a malformed escape, with junk after
\* a second '=', after another cookie, and twice.
AuCookies ==
    {<<>>, <<CookiePart("theme", <<Plain(<<"dark">>)>>)>>,
     <<CookiePart(COOKIE_NAME, <<>>)>>,
     <<CookiePart(COOKIE_NAME, <<Malformed>>)>>,
     <<CookiePart(COOKIE_NAME, <<Plain(<<"alice", "9f40">>), Plain(<<"x">>)>>)>>}
      \cup {<<CookiePart(COOKIE_NAME, <<Plain(t)>>)>> : t \in Tokens \ {<<>>}}
      \cup {<<CookiePart(COOKIE_NAME, <<Escaped(signToken(<<"alice">>, s))>>)>> :
               s \in Secrets}
      \cup {<<CookiePart("theme", <<Plain(<<"dark">>)>>),
              CookiePart(COOKIE_NAME, <<Plain(signToken(<<"alice">>, s))>>)>> :
               s \in Secrets}
      \cup {<<CookiePart(COOKIE_NAME, <<Plain(<<"alice", "9f40">>)>>),
              CookiePart(COOKIE_NAME, <<Plain(signToken(<<"alice">>, s))>>)>> :
               s \in Secrets}

AuOutIdle == auCalls = {} /\ auStatus = 0
AuIdle ==
    /\ auEndpoint = "" /\ auCookie = <<>> /\ auSecret = "" /\ auQuery = ""
    /\ auUpstream = "" /\ AuOutIdle /\ auPc = "idle"
AuInit ==
    /\ auEndpoint \in DataEndpoints /\ auCookie \in AuCookies
    /\ auSecret \in Secrets /\ auQuery \in {"present", "missing"}
    /\ auUpstream \in {"ok", "fails"} /\ AuOutIdle /\ auPc = "request"

AuAnswers(endpoint, outcome) ==
    /\ auPc = "request" /\ auEndpoint = endpoint
    /\ auCalls' = outcome.calls /\ auStatus' = outcome.status
    /\ auPc' = "done"
    /\ UNCHANGED <<auEndpoint, auCookie, auSecret, auQuery, auUpstream>>

AuStatsGET ==
    /\ AuAnswers("stats",
                 StatsHandler(auCookie, auSecret, auQuery, auUpstream))
    /\ UNCHANGED notAu

AuSprintStatsGET ==
    /\ AuAnswers("sprint-stats",
                 SprintStatsHandler(auCookie, auSecret, auQuery, auUpstream))
    /\ UNCHANGED notAu

AuStreamGET ==
    /\ AuAnswers("sprint-stats/stream",
                 StreamHandler(auCookie, auSecret, auQuery, auUpstream))
    /\ UNCHANGED notAu

AuSprintsGET ==
    /\ AuAnswers("sprints",
                 SprintsHandler(auCookie, auSecret, auQuery, auUpstream))
    /\ UNCHANGED notAu

AuProjectsGET ==
    /\ AuAnswers("projects",
                 ProjectsHandler(auCookie, auSecret, auQuery, auUpstream))
    /\ UNCHANGED notAu

AuUsersGET ==
    /\ AuAnswers("users",
                 UsersHandler(auCookie, auSecret, auQuery, auUpstream))
    /\ UNCHANGED notAu

(***************************************************************************)
(* Specifications.                                                         *)
(***************************************************************************)
InitSprint ==
    /\ SpInit /\ tz \in TzOffsets
    /\ DurIdle /\ MedIdle /\ AggIdle /\ VelIdle /\ PtIdle /\ StIdle /\ ScIdle /\ LocIdle /\ CfgIdle /\ ReqIdle /\ MwIdle /\ LcIdle /\ RvIdle /\ BtIdle /\ SsIdle /\ AsIdle /\ AuIdle
NextSprint ==
    \/ SpComputeScope
    \/ SpBuildBurn
    \/ SpLocateToday
    \/ SpNoBurn
    \/ SpForecast
SpecSprint == InitSprint /\ [][NextSprint]_vars

InitPhaseTimes ==
    /\ PtInit /\ tz = 0
    /\ DurIdle /\ MedIdle /\ AggIdle /\ VelIdle /\ SpIdle /\ StIdle /\ ScIdle /\ LocIdle /\ CfgIdle /\ ReqIdle /\ MwIdle /\ LcIdle /\ RvIdle /\ BtIdle /\ SsIdle /\ AsIdle /\ AuIdle
NextPhaseTimes ==
    \/ PhaseFetchRejects
    \/ PhaseNotOk
    \/ PhaseBodyRejects
    \/ PhaseRecord
    \/ PhaseReturn
SpecPhaseTimes == InitPhaseTimes /\ [][NextPhaseTimes]_vars

InitStats ==
    /\ StInit /\ tz = 0
    /\ DurIdle /\ MedIdle /\ AggIdle /\ VelIdle /\ SpIdle /\ PtIdle /\ ScIdle /\ LocIdle /\ CfgIdle /\ ReqIdle /\ MwIdle /\ LcIdle /\ RvIdle /\ BtIdle /\ SsIdle /\ AsIdle /\ AuIdle
NextStats ==
    \/ StatsBadRequest
    \/ StatsFetch
    \/ StatsPhaseTimes
    \/ StatsAnnotate
    \/ StatsLinkAndRespond
SpecStats == InitStats /\ [][NextStats]_vars

InitScope ==
    /\ ScInit /\ tz = 0
    /\ DurIdle /\ MedIdle /\ AggIdle /\ VelIdle /\ SpIdle /\ PtIdle /\ StIdle /\ LocIdle /\ CfgIdle /\ ReqIdle /\ MwIdle /\ LcIdle /\ RvIdle /\ BtIdle /\ SsIdle /\ AsIdle /\ AuIdle
NextScope ==
    \/ ScopeFetchFails
    \/ ScopeNotOk
    \/ ScopeClassify
    \/ ScopeReturn
SpecScope == InitScope /\ [][NextScope]_vars

InitLoc ==
    /\ LocInit /\ tz = 0
    /\ DurIdle /\ MedIdle /\ AggIdle /\ VelIdle /\ SpIdle /\ PtIdle /\ StIdle
       /\ ScIdle /\ CfgIdle /\ ReqIdle /\ MwIdle /\ LcIdle /\ RvIdle /\ BtIdle /\ SsIdle /\ AsIdle /\ AuIdle
NextLoc ==
    \/ LocLinkPRs
    \/ LocFoldStats
    \/ LocClassifyScope
    \/ LocRespond
SpecLoc == InitLoc /\ [][NextLoc]_vars

InitConfig ==
    /\ CfgInit /\ tz = 0
    /\ DurIdle /\ MedIdle /\ AggIdle /\ VelIdle /\ SpIdle /\ PtIdle /\ StIdle
       /\ ScIdle /\ LocIdle /\ ReqIdle /\ MwIdle /\ LcIdle /\ RvIdle /\ BtIdle /\ SsIdle /\ AsIdle /\ AuIdle
NextConfig ==
    \/ CallGithubPRsWithStats
    \/ CallGithubOrgMembers
    \/ CallGithubPRStatsByUrls
    \/ CallJiraIssuesUpdated
    \/ CallJiraSprints
    \/ CallJiraSprintIssues
    \/ StatsRequest
SpecConfig == InitConfig /\ [][NextConfig]_vars

InitRequests ==
    /\ ReqInit /\ tz = 0
    /\ DurIdle /\ MedIdle /\ AggIdle /\ VelIdle /\ SpIdle /\ PtIdle /\ StIdle
       /\ ScIdle /\ LocIdle /\ CfgIdle /\ MwIdle /\ LcIdle /\ RvIdle /\ BtIdle /\ SsIdle /\ AsIdle /\ AuIdle
NextRequests ==
    \/ SprintStatsGET
    \/ SprintStatsStreamGET
    \/ StatsGET
    \/ SprintsGET
SpecRequests == InitRequests /\ [][NextRequests]_vars

InitMiddleware ==
    /\ MwInit /\ tz = 0
    /\ DurIdle /\ MedIdle /\ AggIdle /\ VelIdle /\ SpIdle /\ PtIdle /\ StIdle
       /\ ScIdle /\ LocIdle /\ CfgIdle /\ ReqIdle /\ LcIdle /\ RvIdle /\ BtIdle /\ SsIdle /\ AsIdle /\ AuIdle
NextMiddleware ==
    \/ MwNotMatched
    \/ MwPassStatic
    \/ MwPassPublic
    \/ MwApiUnauthorized
    \/ MwApiNext
    \/ MwRedirect
    \/ MwPageNext
SpecMiddleware == InitMiddleware /\ [][NextMiddleware]_vars

InitLifecycle ==
    /\ LcInit /\ tz = 0
    /\ DurIdle /\ MedIdle /\ AggIdle /\ VelIdle /\ SpIdle /\ PtIdle /\ StIdle
       /\ ScIdle /\ LocIdle /\ CfgIdle /\ ReqIdle /\ MwIdle /\ RvIdle /\ BtIdle /\ SsIdle /\ AsIdle /\ AuIdle
NextLifecycle == ComputeLifecycleCall
SpecLifecycle == InitLifecycle /\ [][NextLifecycle]_vars

InitVelocity ==
    /\ VelInit /\ tz = 0
    /\ DurIdle /\ MedIdle /\ AggIdle /\ SpIdle /\ PtIdle /\ StIdle /\ ScIdle /\ LocIdle /\ CfgIdle /\ ReqIdle /\ MwIdle /\ LcIdle /\ RvIdle /\ BtIdle /\ SsIdle /\ AsIdle /\ AuIdle
NextVelocity == AvgVelocityCall
SpecVelocity == InitVelocity /\ [][NextVelocity]_vars

InitAggregate ==
    /\ AggInit /\ tz \in TzOffsets
    /\ DurIdle /\ MedIdle /\ VelIdle /\ SpIdle /\ PtIdle /\ StIdle /\ ScIdle /\ LocIdle /\ CfgIdle /\ ReqIdle /\ MwIdle /\ LcIdle /\ RvIdle /\ BtIdle /\ SsIdle /\ AsIdle /\ AuIdle
NextAggregate == AggregateDailyCall
SpecAggregate == InitAggregate /\ [][NextAggregate]_vars

InitDiffHours ==
    /\ DurInit /\ tz = 0
    /\ MedIdle /\ AggIdle /\ VelIdle /\ SpIdle /\ PtIdle /\ StIdle /\ ScIdle /\ LocIdle /\ CfgIdle /\ ReqIdle /\ MwIdle /\ LcIdle /\ RvIdle /\ BtIdle /\ SsIdle /\ AsIdle /\ AuIdle
NextDiffHours == DiffHoursCall
SpecDiffHours == InitDiffHours /\ [][NextDiffHours]_vars

InitMedian ==
    /\ MedInit /\ tz = 0
    /\ DurIdle /\ AggIdle /\ VelIdle /\ SpIdle /\ PtIdle /\ StIdle /\ ScIdle /\ LocIdle /\ CfgIdle /\ ReqIdle /\ MwIdle /\ LcIdle /\ RvIdle /\ BtIdle /\ SsIdle /\ AsIdle /\ AuIdle
NextMedian == MedianCall
SpecMedian == InitMedian /\ [][NextMedian]_vars

InitReviewFallback ==
    /\ RvInit /\ tz \in TzOffsets
    /\ DurIdle /\ MedIdle /\ AggIdle /\ VelIdle /\ SpIdle /\ PtIdle /\ StIdle
       /\ ScIdle /\ LocIdle /\ CfgIdle /\ ReqIdle /\ MwIdle /\ LcIdle /\ BtIdle /\ SsIdle /\ AsIdle /\ AuIdle
NextReviewFallback ==
    \/ RvSprintMerge
    \/ RvSprintBurn
    \/ RvStatsAnnotate
SpecReviewFallback == InitReviewFallback /\ [][NextReviewFallback]_vars

InitBatches ==
    /\ BtInit /\ tz = 0
    /\ DurIdle /\ MedIdle /\ AggIdle /\ VelIdle /\ SpIdle /\ PtIdle /\ StIdle
       /\ ScIdle /\ LocIdle /\ CfgIdle /\ ReqIdle /\ MwIdle /\ LcIdle /\ RvIdle /\ SsIdle /\ AsIdle /\ AuIdle
NextBatches ==
    \/ BtNoToken
    \/ BtMakeChunks
    \/ BtStartBatch
    \/ BtRequestSucceeds
    \/ BtRequestFails
    \/ BtBatchSettled
    \/ BtReturn
SpecBatches == InitBatches /\ [][NextBatches]_vars

InitStream ==
    /\ SsInit /\ tz = 0
    /\ DurIdle /\ MedIdle /\ AggIdle /\ VelIdle /\ SpIdle /\ PtIdle /\ StIdle
       /\ ScIdle /\ LocIdle /\ CfgIdle /\ ReqIdle /\ MwIdle /\ LcIdle /\ RvIdle /\ BtIdle /\ AsIdle /\ AuIdle
NextStream ==
    \/ SsStart
    \/ SsTick
    \/ SsTickAtCap
    \/ SsUpstreamEnds
    \/ SsFetchResolved
    \/ SsFetchRejected
    \/ SsJsonParsed
    \/ SsJsonRejected
    \/ SsTextRead
    \/ SsTextRejected
    \/ SsReturnInTry
    \/ SsCloseRejectedInTry
    \/ SsWorkerEnds
    \/ SsClientCloses
SpecStream == InitStream /\ [][NextStream]_vars

\* The request to /api/sprint-stats is served by the route handler of the
\* same server and ends, whatever the client of the stream does.
SpecStreamLive == SpecStream /\ WF_vars(SsUpstreamEnds)

InitAssignees ==
    /\ AsInit /\ tz = 0
    /\ DurIdle /\ MedIdle /\ AggIdle /\ VelIdle /\ SpIdle /\ PtIdle /\ StIdle
       /\ ScIdle /\ LocIdle /\ CfgIdle /\ ReqIdle /\ MwIdle /\ LcIdle /\ RvIdle /\ BtIdle /\ SsIdle /\ AuIdle
NextAssignees ==
    \/ AsTotals
    \/ AsByAssignee
SpecAssignees == InitAssignees /\ [][NextAssignees]_vars

InitHandlers ==
    /\ AuInit /\ tz = 0
    /\ DurIdle /\ MedIdle /\ AggIdle /\ VelIdle /\ SpIdle /\ PtIdle /\ StIdle
       /\ ScIdle /\ LocIdle /\ CfgIdle /\ ReqIdle /\ MwIdle /\ LcIdle /\ RvIdle /\ BtIdle /\ SsIdle /\ AsIdle
NextHandlers ==
    \/ AuStatsGET
    \/ AuSprintStatsGET
    \/ AuStreamGET
    \/ AuSprintsGET
    \/ AuProjectsGET
    \/ AuUsersGET
SpecHandlers == InitHandlers /\ [][NextHandlers]_vars

(***************************************************************************)
(* Claims.                                                                 *)
(***************************************************************************)

\* C1: diffHours (both copies) returns null when either timestamp is missing
\* or unparseable; otherwise it returns the elapsed hours from the first to
\* the second timestamp, clamped below at 0.  The result is never NaN and
\* never negative.
C1_DiffHoursNullOrClamped ==
    dhDone =>
        \A out \in {dhOut, dhOutRoute} :
            /\ out.k # "nan"
            /\ out.k = "num" => (out.num >= 0 /\ out.den > 0)
            /\ (dhA.k # "iso" \/ dhB.k # "iso") => out = JsNull
            /\ (dhA.k = "iso" /\ dhB.k = "iso") =>
                   out = JsNum(IF dhB.ms > dhA.ms THEN dhB.ms - dhA.ms ELSE 0,
                               MsPerHour)

\* C1 witness: a call whose second timestamp precedes the first returned 0.
C1_Witness ==
    /\ dhDone /\ dhA.k = "iso" /\ dhB.k = "iso" /\ dhB.ms < dhA.ms
    /\ dhOut = JsNum(0, MsPerHour) /\ dhOutRoute = dhOut

\* The k-th smallest element (k = 1 .. Len(s)) of s, by counting.
KthSmallest(s, k) ==
    CHOOSE v \in {s[i] : i \in DOMAIN s} :
        /\ Cardinality({i \in DOMAIN s : s[i] < v}) <= k - 1
        /\ Cardinality({i \in DOMAIN s : s[i] > v}) <= Len(s) - k

\* C2: median of the empty list is null, of a one-element list that element,
\* of an odd-length list its middle sorted value and of an even-length list
\* the average of its two middle sorted values (median([1,2,3,4]) = 2.5); the
\* result depends only on the multiset of the input, and the input list is
\* left as it was.
C2_MedianIsMiddle ==
    medDone =>
        LET n == Len(numsIn)
        IN  /\ nums = numsIn
            /\ n = 0 => medOut = JsNull
            /\ n = 1 => medOut = JsInt(numsIn[1])
            /\ (n > 0 /\ n % 2 = 1) =>
                   medOut = JsInt(KthSmallest(numsIn, (n + 1) \div 2))
            /\ (n > 0 /\ n % 2 = 0) =>
                   medOut = JsNum(KthSmallest(numsIn, n \div 2)
                                  + KthSmallest(numsIn, n \div 2 + 1), 2)
            /\ numsIn = <<1, 2, 3, 4>> => medOut = JsNum(5, 2)

\* C2 witness: an unsorted arrangement of 1,2,3,4 gave 2.5 and was not
\* reordered.
C2_Witness ==
    /\ medDone /\ numsIn = <<4, 1, 3, 2>> /\ nums = numsIn
    /\ medOut = JsNum(5, 2)


\* The PRs whose creation day (the date part of createdAt) lies in [from, to].
PRsInRange ==
    {i \in DOMAIN aggPrs :
        /\ aggPrs[i].createdAt.k = "iso"
        /\ aggFrom <= aggPrs[i].createdAt.ms \div MsPerDay
        /\ aggPrs[i].createdAt.ms \div MsPerDay <= aggTo}

\* C3: the output of aggregateDaily has exactly one bucket per calendar day
\* of [from, to], in ascending date order; each bucket counts the PRs created
\* on its day, so the prCounts sum to the number of PRs created in the range
\* and a PR created outside the range is counted nowhere.
C3_DailyBucketsCoverRange ==
    aggDone =>
        /\ Len(aggOut) = aggTo - aggFrom + 1
        /\ \A i \in DOMAIN aggOut :
               /\ aggOut[i].date = aggFrom + i - 1
               /\ aggOut[i].prCount =
                      Cardinality({j \in PRsInRange :
                          aggPrs[j].createdAt.ms \div MsPerDay = aggOut[i].date})
        /\ SumOver([i \in DOMAIN aggOut |-> aggOut[i].prCount],
                   DOMAIN aggOut, 0) = Cardinality(PRsInRange)

\* C3, the part about the sum alone.
C3_PrCountSum ==
    aggDone =>
        SumOver([i \in DOMAIN aggOut |-> aggOut[i].prCount],
                DOMAIN aggOut, 0) = Cardinality(PRsInRange)

\* C3 restricted to servers whose local time is not behind UTC.
C3_HoldsEastOfUTC == tz >= 0 => C3_DailyBucketsCoverRange

\* C4: on every burn point, committed is the sprint's total scope and each
\* of remaining, devRemaining and completeRemaining is
\* max(0, committed - completed) of its own track; none is negative.
C4_BurnRemainingFloored ==
    \A i \in DOMAIN spBurn :
        LET b == spBurn[i]
        IN  /\ b.committed = spScope
            /\ b.remaining =
                   (IF b.committed > b.completed
                    THEN b.committed - b.completed ELSE 0)
            /\ b.devRemaining =
                   (IF b.committed > b.devCompleted
                    THEN b.committed - b.devCompleted ELSE 0)
            /\ b.completeRemaining =
                   (IF b.committed > b.completeCompleted
                    THEN b.committed - b.completeCompleted ELSE 0)
            /\ b.remaining >= 0 /\ b.devRemaining >= 0
            /\ b.completeRemaining >= 0

\* C4 witness: a finished response with a point whose dev track completed
\* more than the scope (remaining floored to 0) and a point with work left.
C4_Witness ==
    /\ spPc = "done"
    /\ \E i \in DOMAIN spBurn :
           spBurn[i].devCompleted > spBurn[i].committed
           /\ spBurn[i].devRemaining = 0
    /\ \E i \in DOMAIN spBurn :
           spBurn[i].completeRemaining = spBurn[i].committed
           /\ spBurn[i].completeRemaining > 0

\* The forecast fields of a track ("dev" or "complete") on a burn point.
ForecastCompletedOf(b, track) ==
    IF track = "dev" THEN b.devForecastCompleted
    ELSE b.completeForecastCompleted
ForecastRemainingOf(b, track) ==
    IF track = "dev" THEN b.devForecastRemaining
    ELSE b.completeForecastRemaining

\* A track of the finished response carries no forecast at all.
NoForecast(track, date) ==
    /\ date = JsNull
    /\ \A i \in DOMAIN spBurn :
           /\ ForecastCompletedOf(spBurn[i], track) = JsNull
           /\ ForecastRemainingOf(spBurn[i], track) = JsNull

\* Every forecast value of a track lies within the scope, on a future point.
ForecastWithinScope(track) ==
    \A i \in DOMAIN spBurn :
        LET fc == ForecastCompletedOf(spBurn[i], track)
            fr == ForecastRemainingOf(spBurn[i], track)
        IN  fc # JsNull =>
                /\ i - 1 > spTodayIdx
                /\ fc.num <= spScope * fc.den
                /\ fr # JsNull /\ fr.num >= 0

\* C5: per track, a velocity of 0 leaves every burn point without that
\* track's forecast fields and the track without a completion date; with a
\* velocity > 0 every forecast completed value is <= the total scope and
\* every forecast remaining value is >= 0.
C5_ForecastOnlyWithVelocity ==
    (spPc = "done" /\ Len(spBurn) > 0) =>
        /\ spVDev.num = 0 => NoForecast("dev", spDevDate)
        /\ spVComp.num = 0 => NoForecast("complete", spCompDate)
        /\ spVDev.num > 0 => ForecastWithinScope("dev")
        /\ spVComp.num > 0 => ForecastWithinScope("complete")

\* C5 witness: the dev track has a velocity and its projection reaches the
\* scope on a future day, the complete track has none and no forecast.
C5_Witness ==
    /\ spPc = "done" /\ Len(spBurn) > 0
    /\ spVDev.num > 0 /\ spVComp.num = 0 /\ spScope > 0
    /\ spDevDate # JsNull /\ spCompDate = JsNull
    /\ \E i \in DOMAIN spBurn :
           /\ spBurn[i].devForecastCompleted # JsNull
           /\ spBurn[i].devForecastCompleted.num
                  = spScope * spBurn[i].devForecastCompleted.den
           /\ spBurn[i].devForecastRemaining.num = 0
           /\ spBurn[i].completeForecastCompleted = JsNull

\* The date the claim gives a track: today's series date plus
\* ceil(remaining / velocity) days.
ClaimedCompletionDay(completedToday, v) ==
    LET remaining == IF spScope > completedToday
                     THEN spScope - completedToday ELSE 0
    IN  spBurn[spTodayIdx + 1].date + CeilDiv(remaining * v.den, v.num)

\* C6: a completion date that is returned for a track is the 'today' series
\* date plus ceil(remaining / velocity) days; in the scenario (scope 20 SP,
\* 10 SP completed by day 6, today = day 6) the complete track's date lies
\* after day 6 and is day 6 + ceil(10 / velocity).
C6_CompletionDateIsTodayPlusDaysNeeded ==
    spPc = "done" =>
        /\ spDevDate # JsNull =>
               spDevDate.num = ClaimedCompletionDay(
                       spBurn[spTodayIdx + 1].devCompleted, spVDev)
        /\ spCompDate # JsNull =>
               spCompDate.num = ClaimedCompletionDay(
                       spBurn[spTodayIdx + 1].completeCompleted, spVComp)
        /\ (spIssues = ScenarioIssues /\ spStart # TsNull) =>
               /\ spCompDate # JsNull
               /\ spCompDate.num > 6
               /\ spCompDate.num * spVComp.num
                      >= (6 * spVComp.num + 10 * spVComp.den)
               /\ (spCompDate.num - 1) * spVComp.num
                      < (6 * spVComp.num + 10 * spVComp.den)

\* C6 restricted to servers whose local time is not behind UTC.
C6_HoldsEastOfUTC == tz >= 0 => C6_CompletionDateIsTodayPlusDaysNeeded

\* C6: the scenario has run to its response (the case the claim is about).
C6_ScenarioDone ==
    /\ spPc = "done" /\ spIssues = ScenarioIssues /\ spStart # TsNull
    /\ spBurn[6].date = 6 /\ spBurn[6].completeCompleted = 10
    /\ spTodayIdx = 5 /\ spScope = 20

\* The increments avgVelocity looks at: the last five of the series.
WindowIncrements(series) ==
    LET n == Len(series)
    IN  [i \in 1..Min(VelocityWindow, n - 1) |->
            series[n - i + 1] - series[n - i]]

\* C7 as stated: velocity is never negative, 0 for a history of fewer than
\* 2 points, and about 1.67 SP/day (between 1.6 and 1.7) for the series that
\* reaches 5 SP on day 3 and 10 SP on day 6.
C7_VelocityAsStated ==
    velDone =>
        /\ velOut.k = "num" /\ velOut.num >= 0 /\ velOut.den > 0
        /\ Len(velSeries) < 2 => velOut.num = 0
        /\ velSeries \in ScenarioSeries =>
               /\ 16 * velOut.den <= 10 * velOut.num
               /\ 10 * velOut.num <= 17 * velOut.den

\* C7 amended: velocity is the mean of the strictly positive increments
\* among the last five daily increments (a day whose increment is zero or
\* negative is left out of the sum and of the count); it is never negative,
\* it is 0 when the history has fewer than 2 points or no positive increment
\* in the window, and it is 5 SP/day for the series that reaches 5 SP on
\* day 3 and 10 SP on day 6.
C7_VelocityIsMeanOfPositiveIncrements ==
    velDone =>
        LET w == WindowIncrements(velSeries)
            P == {i \in DOMAIN w : w[i] > 0}
        IN  /\ velOut.k = "num" /\ velOut.num >= 0 /\ velOut.den > 0
            /\ Len(velSeries) < 2 => velOut.num = 0
            /\ P = {} => velOut.num = 0
            /\ P # {} =>
                   /\ velOut.num * Cardinality(P)
                        = velOut.den * SumOver([i \in P |-> w[i]], P, 0)
                   /\ \E i \in P : w[i] * velOut.den <= velOut.num
                   /\ \E i \in P : w[i] * velOut.den >= velOut.num
            /\ velSeries \in ScenarioSeries => velOut.num = 5 * velOut.den

\* C7 witness: a series with a decreasing day inside the window and a
\* positive velocity.
C7_Witness ==
    /\ velDone /\ Len(velSeries) = MaxSeries
    /\ \E i \in 3..Len(velSeries) : velSeries[i] < velSeries[i - 1]
    /\ velSeries[2] > velSeries[1]
    /\ velOut.num > 0

\* The histories array lists the entries oldest first.
OldestFirst(histories) ==
    \A i, j \in DOMAIN histories :
        i < j => histories[i].created.ms < histories[j].created.ms

\* A status name as Jira stores it: without surrounding blanks.
Unpadded(histories) ==
    \A i \in DOMAIN histories : \A j \in DOMAIN histories[i].items :
        Trim[histories[i].items[j].toString] = histories[i].items[j].toString

\* The entry h changes the status to a name that, letter case aside, is one
\* of names.
EntersGroup(h, names) ==
    \E j \in DOMAIN h.items :
        /\ h.items[j].field = "status"
        /\ \E n \in DOMAIN names :
               ToLowerCase[h.items[j].toString] = ToLowerCase[names[n]]

\* The timestamp of the oldest entry into the group, null if there is none.
FirstEntryInto(histories, names) ==
    LET M == {i \in DOMAIN histories : EntersGroup(histories[i], names)}
    IN  IF M = {} THEN TsNull
        ELSE histories[CHOOSE i \in M :
                          \A j \in M : histories[i].created.ms
                                          <= histories[j].created.ms].created

\* C8: for every issue whose changelog was read (entries oldest first) and
\* each of the groups inProgress, review and complete, the returned
\* timestamp is that of the first status change into a name of the group,
\* names compared case-insensitively; a later entry into the group does not
\* replace it.  The changelog [T0 To Do, T1 In Progress, T2 Review, T3 Done]
\* gives {todo: T0, inProgress: T1, review: T2, complete: T3}.
C8_FirstEntryPerGroup ==
    ptPc = "returned" =>
        \A k \in PhaseKeys :
            LET r == ptResp[k]
            IN  /\ (r.kind = "ok" /\ OldestFirst(r.histories)
                    /\ Unpadded(r.histories)) =>
                       /\ ptOut[k].has
                       /\ ptOut[k].inProgress
                            = FirstEntryInto(r.histories, Stages.inProgress)
                       /\ ptOut[k].review
                            = FirstEntryInto(r.histories, Stages.review)
                       /\ ptOut[k].complete
                            = FirstEntryInto(r.histories, Stages.complete)
                /\ r = ScenarioResp =>
                       ptOut[k] = [has |-> TRUE, todo |-> PhaseT(0),
                                   inProgress |-> PhaseT(1),
                                   review |-> PhaseT(2),
                                   complete |-> PhaseT(3)]

\* C8 witness: PROJ-1 entered the inProgress group twice, first under the
\* name "IN PROGRESS" at T1, and reached review in between; the first entry
\* was returned.  PROJ-2 is the scenario's issue.
C8_Witness ==
    /\ ptPc = "returned"
    /\ ptResp["PROJ-1"].kind = "ok"
    /\ Len(ptResp["PROJ-1"].histories) = 3
    /\ OldestFirst(ptResp["PROJ-1"].histories)
    /\ ptResp["PROJ-1"].histories[1].items[1].toString = "IN PROGRESS"
    /\ ptResp["PROJ-1"].histories[2].items[1].toString = "Review"
    /\ ptResp["PROJ-1"].histories[3].items[1].toString
          = "Selected for Development"
    /\ \A i \in 1..3 : ptResp["PROJ-1"].histories[i].items[1].field = "status"
    /\ ptOut["PROJ-1"].inProgress = PhaseT(1)
    /\ ptOut["PROJ-1"].review = PhaseT(2)
    /\ ptResp["PROJ-2"] = ScenarioResp /\ ptOut["PROJ-2"].complete = PhaseT(3)

\* C9: the todo timestamp is that of the first explicit status change into a
\* todo name when the changelog has one, and the creation timestamp only
\* when it has none.
C9_TodoIsFirstExplicitTransition ==
    ptPc = "returned" =>
        \A k \in PhaseKeys :
            LET r == ptResp[k]
                first == FirstEntryInto(r.histories, Stages.todo)
            IN  (r.kind = "ok" /\ OldestFirst(r.histories)) =>
                    ptOut[k].todo = (IF first # TsNull THEN first
                                     ELSE r.created)

\* C9, what the code does: the creation timestamp whenever the issue has
\* one, the first status change into a todo name otherwise.
C9_TodoIsCreationFirst ==
    ptPc = "returned" =>
        \A k \in PhaseKeys :
            LET r == ptResp[k]
            IN  (r.kind = "ok" /\ OldestFirst(r.histories)) =>
                    ptOut[k].todo =
                        (IF r.created # TsNull THEN r.created
                         ELSE FirstEntryInto(r.histories, Stages.todo))

\* C9: an issue created at T0 that was moved to "To Do" at T2 has been
\* answered.
C9_MovedBackToTodo ==
    /\ ptPc = "returned"
    /\ ptResp["PROJ-1"].kind = "ok"
    /\ ptResp["PROJ-1"].created = PhaseT(0)
    /\ Len(ptResp["PROJ-1"].histories) = 2
    /\ OldestFirst(ptResp["PROJ-1"].histories)
    /\ ptResp["PROJ-1"].histories[1].items[1]
          = [field |-> "status", toString |-> "IN PROGRESS"]
    /\ ptResp["PROJ-1"].histories[2].items[1]
          = [field |-> "status", toString |-> "To Do"]
    /\ ptOut["PROJ-1"].todo = PhaseT(0)

\* C10: a failed fetch (rejected request, non-OK status, unparseable body)
\* never makes the call throw; the returned map has no entry for an issue
\* whose fetch failed, and for every other requested issue it has the entry
\* that issue's own changelog gives, whatever happened to the others.
C10_FailedIssueOmitted ==
    /\ ptPc # "threw"
    /\ ptPc = "returned" =>
           /\ ptIdx = Len(ptKeys) + 1
           /\ \A k \in PhaseKeys :
                  /\ ptResp[k].kind \in FailureKinds => ptOut[k] = NoEntry
                  /\ ptResp[k].kind = "ok" =>
                         /\ ptOut[k].has
                         /\ ptOut[k] = PhaseTimesOf(ptResp[k])
                  /\ ptResp[k] = ScenarioResp =>
                         (ptOut[k].todo = PhaseT(0)
                          /\ ptOut[k].complete = PhaseT(3))

\* C10 witness: the first requested issue's body did not parse; the call
\* returned, without it and with the second issue's entry.
C10_Witness ==
    /\ ptPc = "returned"
    /\ ptKeys = <<"PROJ-1", "PROJ-2">>
    /\ ptResp["PROJ-1"].kind = "badjson"
    /\ ptResp["PROJ-2"] = ScenarioResp
    /\ ~ptOut["PROJ-1"].has
    /\ ptOut["PROJ-2"].has /\ ptOut["PROJ-2"].inProgress = PhaseT(1)

\* The actor of the request produced an entry of the changelog on a day of
\* the window.
TouchedInWindow(changelog) ==
    \E i \in DOMAIN changelog.histories :
        /\ changelog.histories[i].author = stQuery.jiraAccountId
        /\ (changelog.histories[i].created.ms \div MsPerDay)
              \in stQuery.from..stQuery.to

C11_UnflaggedTicket ==
    /\ stPc = "done" /\ stStatus = 200
    /\ stQuery.jiraAccountId = Actor
    /\ Len(stIssues[1].changelog.histories) = 2
    /\ stIssues[1].changelog.histories[1].author = "acc-2"
    /\ stIssues[1].changelog.histories[1].created = TsIso(Noon(QueryTo))
    /\ stIssues[1].changelog.histories[2].author = Actor
    /\ stIssues[1].changelog.histories[2].created = TsIso(Noon(QueryTo + 1))
    /\ stTickets[1].inProgressAt = TsIso(Noon(QueryTo))
    /\ ~stTickets[1].updatedBySelectedUserInWindow

\* The key k occurs in the title t, character by character, at some offset.
OccursIn(k, t) ==
    \E n \in 0..Len(t) :
        \A c \in DOMAIN k : n + c <= Len(t) /\ t[n + c] = k[c]

\* C13: every PR of the response carries in jiraKeys exactly the keys of the
\* fetched tickets that occur as a substring of its title, each once; a PR
\* whose title contains no known key has an empty list.
C13_TitleKeysAttached ==
    (stPc = "done" /\ stStatus = 200) =>
        /\ Len(stPrsLinked) = Len(stPrs)
        /\ \A p \in DOMAIN stPrsLinked :
              LET jk == stPrsLinked[p].jiraKeys
                  known == {stIssues[i].key : i \in DOMAIN stIssues}
              IN  /\ stPrsLinked[p].title = stPrs[p].title
                  /\ {jk[i] : i \in DOMAIN jk}
                        = {k \in known : OccursIn(k, stPrs[p].title)}
                  /\ \A i, j \in DOMAIN jk : jk[i] = jk[j] => i = j
                  /\ (\A k \in known : ~OccursIn(k, stPrs[p].title))
                        => jk = <<>>

\* C13 witness: all three tickets are known; the first PR's title holds
\* "A-12" (and with it "A-1") but not "B-1", the second holds only "B-1".
C13_Witness ==
    /\ stPc = "done" /\ stStatus = 200 /\ Len(stIssues) = 3
    /\ stPrs[1].title = KeyA1 \o <<"2">> \o <<" ">>
    /\ stPrsLinked[1].jiraKeys = <<KeyA1, KeyA12>>
    /\ stPrsLinked[2].jiraKeys = <<KeyB1>>

\* The text of a Sprint value encodes the sprint id.
Encodes(text, sprintId) == \E i \in DOMAIN text : text[i] = sprintId

\* The history entry h brings the issue into the target sprint, strictly
\* after the sprint start.
EnteredAfterStart(h) ==
    /\ scStart # TsNull /\ h.created # TsNull
    /\ h.created.ms > scStart.ms
    /\ \E j \in DOMAIN h.items :
           /\ h.items[j].field = "Sprint"
           /\ Encodes(h.items[j].toString, TargetSprint)
           /\ ~Encodes(h.items[j].fromString, TargetSprint)

\* The classification the claim gives a changelog.
ClaimedScope(histories) ==
    IF \E i \in DOMAIN histories : EnteredAfterStart(histories[i])
    THEN "added" ELSE "committed"

\* C12: an issue whose changelog fetch succeeds is 'added' if some Sprint
\* entry has a 'to' value encoding the target sprint id and a 'from' value
\* that does not, strictly after the sprint start, and 'committed' in every
\* other case; an issue added one day after the start is 'added', an issue
\* without Sprint entries is 'committed'.
C12_AddedIffEnteredAfterStart ==
    scPc = "returned" =>
        \A k \in PhaseKeys :
            scResp[k].kind = "ok" =>
                scResult[k] = ClaimedScope(scResp[k].histories)

\* C12 restricted to changelogs whose Sprint values each spell one sprint at
\* most.
C12_HoldsForSingleSprintValues ==
    scPc = "returned" =>
        \A k \in PhaseKeys :
            (/\ scResp[k].kind = "ok"
             /\ \A i \in DOMAIN scResp[k].histories :
                   \A j \in DOMAIN scResp[k].histories[i].items :
                       Len(scResp[k].histories[i].items[j].toString) <= 1)
            => scResult[k] = ClaimedScope(scResp[k].histories)

\* C12: the scenario has been answered: PROJ-1 entered the sprint one day
\* after the start and is 'added', PROJ-2 has no Sprint entry and is
\* 'committed'.
C12_ScenarioAnswered ==
    /\ scPc = "returned" /\ scStart = SprintStartAt
    /\ scResp["PROJ-1"] =
          ScopeOk(<<[created |-> TsIso(Noon(3)),
                     items |-> <<[field |-> "Sprint", fromString |-> <<>>,
                                  toString |-> <<TargetSprint>>]>>]>>)
    /\ scResult["PROJ-1"] = "added"
    /\ scResp["PROJ-2"] = ScopeOk(<<>>) /\ scResult["PROJ-2"] = "committed"

(***************************************************************************)
(* C14: PR line counts of a parent issue.                                  *)
(***************************************************************************)
\* The URL a dev-status panel entry shows.
PanelUrl(pr) == IF pr.url # Undefined THEN pr.url ELSE pr.self

\* The URLs on the dev-status panel of an issue, as far as it could be read.
PanelUrls(id) ==
    IF locWorld.dev[id].kind # "ok" THEN {}
    ELSE {PanelUrl(pr) : pr \in SeqToSet(locWorld.dev[id].pullRequests)}
           \ {Undefined}

\* The subtasks Jira reports for a parent key.
SubtasksOfKey(k) ==
    IF locWorld.subtasks.kind # "ok" THEN {}
    ELSE {it.id : it \in {x \in SeqToSet(locWorld.subtasks.issues) :
                             x.parent = k}}

\* The distinct URLs of a parent and all its subtasks.
DistinctUrls(p) ==
    PanelUrls(p.id) \cup UNION {PanelUrls(c) : c \in SubtasksOfKey(p.key)}

\* GitHub statistics were obtained for a URL.
StatsObtained(u) ==
    locWorld.githubToken /\ ParsesAsPull[u] /\ locWorld.gh[u].kind = "ok"

\* C14: once the line counts are folded, every parent's prAdditions and
\* prDeletions are the sums of additions and deletions over the distinct
\* URLs of the parent and its subtasks for which GitHub statistics were
\* obtained, each URL counted once.
C14_LocSumsOverDistinctUrls ==
    locPc \in {"scope", "respond", "done"} =>
        \A i \in DOMAIN locParents :
            LET p == locParents[i]
                counted == {u \in DistinctUrls(p) : StatsObtained(u)}
            IN  /\ p.prAdditions =
                       SumOver([u \in {U1, U2, U3} |->
                                   locWorld.gh[u].additions], counted, 0)
                /\ p.prDeletions =
                       SumOver([u \in {U1, U2, U3} |->
                                   locWorld.gh[u].deletions], counted, 0)

\* A parent and its subtask both link the same PR, whose statistics were
\* obtained; the parent's line counts are those of the PR once.
C14_Witness ==
    /\ locPc = "done"
    /\ \E i \in DOMAIN locParents :
          LET p == locParents[i]
          IN  /\ p.key = "PROJ-1"
              /\ U1 \in PanelUrls("10") /\ U1 \in PanelUrls("11")
              /\ "11" \in SubtasksOfKey("PROJ-1")
              /\ Len(p.linkedPRs) > Len(locUrls[p.key])
              /\ StatsObtained(U1)
              /\ p.prAdditions = locWorld.gh[U1].additions
              /\ p.prAdditions > 0

(***************************************************************************)
(* C15: failed fetches during the sprint-stats assembly.                   *)
(***************************************************************************)
\* The changelog fetch of some issue failed.
ScopeFetchFailed == \E k \in LocKeys : locWorld.scope[k].kind # "ok"

\* The subtask query, the dev-status lookup of a parent, or the statistics
\* lookup of a URL that was asked for failed.
LinkingFetchFailed ==
    \/ locWorld.subtasks.kind # "ok"
    \/ \E i \in DOMAIN locParents :
          \/ locWorld.dev[locParents[i].id].kind # "ok"
          \/ \E j \in DOMAIN locUrls[locParents[i].key] :
                LET u == locUrls[locParents[i].key][j]
                IN  /\ IncludesGithub[u] /\ locWorld.githubToken
                    /\ locWorld.gh[u].kind = "neterr"

Warned(w) == \E i \in DOMAIN locWarnings : locWarnings[i] = w

\* C15: when a fetch failed during the assembly, the request is answered
\* with 200, the feature is computed with its default, and the warnings
\* hold a warning for the failed feature.
C15_FailedFetchIsWarned ==
    locPc = "done" =>
        /\ locStatus = 200
        /\ ScopeFetchFailed => Warned(WarnScope)
        /\ LinkingFetchFailed => Warned(WarnLoc)

\* What holds: the request is answered with 200, an issue whose changelog
\* fetch failed counts as 'committed', and a parent whose dev-status lookup
\* failed contributes nothing of its own.
C15_FailedFetchDegradesToDefault ==
    locPc = "done" =>
        /\ locStatus = 200
        /\ \A k \in LocKeys :
              locWorld.scope[k].kind # "ok" =>
                  TagOf(locScopeByKey, k) = "committed"
        /\ \A i \in DOMAIN locParents :
              (/\ locWorld.dev[locParents[i].id].kind # "ok"
               /\ locUrls[locParents[i].key] = <<>>)
                  => (/\ locParents[i].prAdditions = 0
                      /\ locParents[i].prDeletions = 0)

\* The dev-status lookup of a parent failed and the response is out.
C15_FailedLookupAnswered ==
    /\ locPc = "done" /\ locStatus = 200
    /\ locWorld.dev["10"].kind = "neterr"
    /\ locWarnings = <<>>

(***************************************************************************)
(* C16: the collaborators without their configuration.                     *)
(***************************************************************************)
\* The configuration a collaborator needs is absent.
ConfigMissingFor(name, c) ==
    IF name \in {"getGithubPRsWithStats", "getGithubOrgMembers",
                 "getGithubPRStatsByUrls"}
    THEN c.githubToken = ""
    ELSE c.jiraBaseUrl = "" \/ c.jiraToken = ""

\* C16: a collaborator called without its configuration returns an empty
\* result and does not throw, and a stats request made without the GitHub
\* token or the Jira configuration is answered with success over empty data.
C16_MissingConfigYieldsEmpty ==
    /\ (cfgCalled \in Collaborators /\ ConfigMissingFor(cfgCalled, cfgEnv))
          => cfgOut = Returned(<<>>)
    /\ (/\ cfgCalled = "stats"
        /\ cfgEnv.githubToken = "" /\ JiraUnconfigured(cfgEnv))
          => (/\ cfgResponse.status = 200
              /\ cfgResponse.prs = <<>> /\ cfgResponse.tickets = <<>>)

\* What holds: the Jira collaborators and the PR statistics lookup return
\* an empty result without their configuration.
C16_JiraAndStatisticsYieldEmpty ==
    (/\ cfgCalled \in Collaborators
     /\ cfgCalled \notin {"getGithubPRsWithStats", "getGithubOrgMembers"}
     /\ ConfigMissingFor(cfgCalled, cfgEnv))
        => cfgOut = Returned(<<>>)

\* The stats request without a GitHub token is answered with 500.
C16_StatsWithoutToken ==
    /\ cfgCalled = "stats" /\ cfgEnv.githubToken = ""
    /\ cfgResponse.status = 500
    /\ cfgResponse.error = "Missing GITHUB_TOKEN"

(***************************************************************************)
(* C17: request-level failures.                                            *)
(***************************************************************************)
\* A required query parameter of the endpoint is missing.
MissingRequiredParam ==
    \/ /\ reqEndpoint \in {"sprint-stats", "sprint-stats/stream"}
       /\ NoValue(reqQuery.sprintId)
    \/ /\ reqEndpoint = "stats"
       /\ NoValue(reqQuery.login) \/ NoValue(reqQuery.from)
             \/ NoValue(reqQuery.to)
    \/ /\ reqEndpoint = "sprints"
       /\ NoValue(reqQuery.boardId) /\ reqEnvBoard = ""

\* An authenticated sprint-stats request names a sprint that is not found.
SprintNotFound ==
    /\ reqEndpoint = "sprint-stats" /\ reqUser # Undefined
    /\ ~NoValue(reqQuery.sprintId) /\ reqUpstream.meta = "null"

\* C17: a request with a missing required parameter is answered with a 4xx
\* status and a JSON error body, a sprint that is not found with 404 and a
\* JSON error body; neither receives a success status.
C17_RequestFailureIsHttpError ==
    /\ MissingRequiredParam =>
          /\ reqResponse.status \in 400..499
          /\ reqResponse.type = "json" /\ reqResponse.error
    /\ SprintNotFound => reqResponse = JsonError(404)

\* What holds: the sprint-stats and stats endpoints answer a missing
\* parameter with a 4xx JSON error, and sprint-stats answers 404 with a
\* JSON error for a sprint that is not found.
C17_HoldsForSprintStatsAndStats ==
    /\ (MissingRequiredParam /\ reqEndpoint \in {"sprint-stats", "stats"})
          => (/\ reqResponse.status \in 400..499
              /\ reqResponse.type = "json" /\ reqResponse.error)
    /\ SprintNotFound => reqResponse = JsonError(404)

\* An authenticated sprints request without a board id is answered with
\* success.
C17_SprintsWithoutBoard ==
    /\ reqEndpoint = "sprints" /\ reqUser # Undefined
    /\ NoValue(reqQuery.boardId) /\ reqEnvBoard = ""
    /\ reqResponse.status = 200

(***************************************************************************)
(* C18: authentication at the boundary.                                    *)
(***************************************************************************)
\* A path that is not public: not one of the four public paths and not
\* under a static asset prefix.
NonPublicPath(pathname) ==
    /\ pathname \notin {PathRoot, PathLogin, PathLogout, PathFavicon}
    /\ ~StartsWith(pathname, PrefixNext)
    /\ ~StartsWith(pathname, PrefixAssets)
    /\ ~StartsWith(pathname, PrefixImages)

\* The cookie is absent, or it has no signature part, or its signature part
\* differs from the HMAC of its user name under the server secret.
CookieAbsentOrForged(token, secret) ==
    \/ token = <<>>
    \/ Len(token) = 1
    \/ /\ Len(token) >= 2
       /\ token[Len(token)]
             # HmacHex(secret, SubSeq(token, 1, Len(token) - 1))

ReadyTimeOf(p) ==
    IF p.readyForReviewAt.k # "null" THEN p.readyForReviewAt
    ELSE IF ~p.isDraft THEN p.createdAt
    ELSE TsNull

\* The first available of first review, ready time and creation time.
ReviewStartOf(p) ==
    IF p.firstReviewAt.k # "null" THEN p.firstReviewAt
    ELSE IF ReadyTimeOf(p).k # "null" THEN ReadyTimeOf(p)
    ELSE p.createdAt

\* C19: a PR's reviewToMergeHours is null exactly when the PR has no merge
\* time or the merge time or the review start cannot be parsed; otherwise
\* it is the hours from the review start to the merge, not below 0.
C19_ReviewToMergeFromFirstAvailable ==
    lcDone =>
        \A i \in DOMAIN lcPrs :
            LET p == lcPrs[i]
                start == ReviewStartOf(p)
                got == lcOut.items[i].reviewToMergeHours
            IN  /\ lcOut.items[i].readyForReviewAt = ReadyTimeOf(p)
                /\ got = JsNull <=>
                       \/ p.mergedAt.k \in {"null", "empty"}
                       \/ p.mergedAt.k # "iso" \/ start.k # "iso"
                /\ (p.mergedAt.k = "iso" /\ start.k = "iso") =>
                       got = JsNum(Max(0, p.mergedAt.ms - start.ms),
                                   MsPerHour)

\* A PR without a review, marked ready at hour 3 and merged at hour 6:
\* three hours.
C19_Witness ==
    /\ lcDone /\ Len(lcPrs) = 1
    /\ lcPrs[1].firstReviewAt = TsNull
    /\ lcPrs[1].readyForReviewAt = AtHour(3)
    /\ lcPrs[1].createdAt = AtHour(2)
    /\ lcPrs[1].mergedAt = AtHour(6)
    /\ lcOut.items[1].reviewToMergeHours = JsNum(3 * MsPerHour, MsPerHour)

(***************************************************************************)
(* C20: sample size and medians.                                           *)
(***************************************************************************)
\* Each duration and the median computed from it.
DurationStats ==
    {<<"timeToReadyHours", "medianTimeToReadyHours">>,
     <<"timeToFirstReviewHours", "medianTimeToFirstReviewHours">>,
     <<"reviewToMergeHours", "medianReviewToMergeHours">>,
     <<"cycleTimeHours", "medianCycleTimeHours">>,
     <<"inProgressToCreatedHours", "medianInProgressToCreatedHours">>}

\* The PRs that have a value for a duration.
Having(field) == {i \in DOMAIN lcOut.items : lcOut.items[i][field] # JsNull}

\* The k-th smallest value of a duration, in milliseconds, by counting.
KthDuration(field, k) ==
    LET I == Having(field)
        ms(i) == lcOut.items[i][field].num
    IN  CHOOSE v \in {ms(i) : i \in I} :
            /\ Cardinality({i \in I : ms(i) < v}) <= k - 1
            /\ Cardinality({i \in I : ms(i) > v}) <= Cardinality(I) - k

\* The median of a duration over the PRs that have it.
MedianOfHaving(field) ==
    LET n == Cardinality(Having(field))
    IN  IF n = 0 THEN JsNull
        ELSE IF n % 2 = 1
             THEN JsNum(KthDuration(field, (n + 1) \div 2), MsPerHour)
        ELSE JsNum(KthDuration(field, n \div 2)
                     + KthDuration(field, n \div 2 + 1), 2 * MsPerHour)

\* C20: sampleSize is the number of PRs handed in, and each median is the
\* median over exactly the PRs that have that duration, null when none has.
C20_MediansOverPRsHavingTheDuration ==
    lcDone =>
        /\ lcOut.stats.sampleSize = Len(lcPrs)
        /\ Len(lcOut.items) = Len(lcPrs)
        /\ \A fs \in DurationStats :
              lcOut.stats[fs[2]] = MedianOfHaving(fs[1])

\* Three PRs of which one is not merged but was reviewed: it counts in the
\* sample size and in the first-review median, not in the merge median.
C20_Witness ==
    /\ lcDone /\ Len(lcPrs) = 3
    /\ lcOut.stats.sampleSize = 3
    /\ Cardinality(Having("reviewToMergeHours")) = 2
    /\ Cardinality(Having("timeToFirstReviewHours")) = 3
    /\ lcOut.stats.medianReviewToMergeHours # JsNull
    /\ lcOut.stats.medianTimeToFirstReviewHours # JsNull
    /\ lcOut.stats.medianInProgressToCreatedHours = JsNull

\* The history entry h moves the issue into or out of the target sprint.
SprintInOut(h) ==
    \E j \in DOMAIN h.items :
        /\ h.items[j].field = "Sprint"
        /\ Encodes(h.items[j].toString, TargetSprint)
               # Encodes(h.items[j].fromString, TargetSprint)

InOutEntries(histories) == {i \in DOMAIN histories : SprintInOut(histories[i])}

\* The issue moved into or out of the sprint three times at least.
LeftAndRejoined(histories) == Cardinality(InOutEntries(histories)) >= 3

\* The in/out entry scanned last.
LatestInOut(histories) ==
    histories[CHOOSE i \in InOutEntries(histories) :
                  \A j \in InOutEntries(histories) : j <= i]

\* C21: for an issue that left and rejoined the sprint several times, the
\* classification is the one its latest Sprint in/out entry in scan order
\* gives on its own; the earlier in/out entries do not affect it.
C21_LatestEntryDecides ==
    scPc = "returned" =>
        \A k \in PhaseKeys :
            (scResp[k].kind = "ok" /\ LeftAndRejoined(scResp[k].histories))
            => scResult[k] =
                  ClassifyScope(<<LatestInOut(scResp[k].histories)>>,
                                scStart, TargetSprint)

\* C21 as the code has it: the issue is 'added' exactly when some entry of
\* its changelog, whatever its place in the scan order, is classified
\* 'added' on its own; entries scanned later never take that back.
C21_AnyEntryDecides ==
    scPc = "returned" =>
        \A k \in PhaseKeys :
            scResp[k].kind = "ok" =>
                (scResult[k] = "added"
                 <=> \E i \in DOMAIN scResp[k].histories :
                        ClassifyScope(<<scResp[k].histories[i]>>, scStart,
                                      TargetSprint) = "added")

\* C21: an issue joined the sprint one day after the start, left it,
\* rejoined it and left it again; it is 'added' although the entry scanned
\* last takes it out of the sprint.
C21_Witness ==
    /\ scPc = "returned" /\ scStart = SprintStartAt
    /\ scResp["PROJ-1"] =
          ScopeOk(<<ScopeIn(TsIso(Noon(3))), ScopeOut(TsIso(Noon(3))),
                    ScopeIn(TsIso(Noon(3))), ScopeOut(TsIso(Noon(3)))>>)
    /\ LeftAndRejoined(scResp["PROJ-1"].histories)
    /\ scResult["PROJ-1"] = "added"

\* Story points of the issues whose timestamp at[i] is set and falls on a
\* local calendar day not after day.
DoneThroughDay(issues, at, day) ==
    LET I == {i \in DOMAIN issues :
                 at[i] # TsNull /\ LocalDay(at[i].ms) <= day}
    IN  SumOver([i \in I |-> sp(issues[i])], I, 0)

\* C22: the burn point of day D counts, in devCompleted (completeCompleted),
\* the story points of the issues whose reviewAt (completeAt) falls on day D
\* or on an earlier day, whatever the time of day.
C22_CompletedThroughDay ==
    \A i \in DOMAIN spBurn :
        /\ spBurn[i].devCompleted =
              DoneThroughDay(spIssues, ReviewAts(spIssues), spBurn[i].date)
        /\ spBurn[i].completeCompleted =
              DoneThroughDay(spIssues, CompleteAts(spIssues), spBurn[i].date)

\* C22 as the code has it: the burn point of day D counts the issues whose
\* timestamp is not after the local midnight on which day D begins.
C22_CompletedBeforeDayBegins ==
    \A i \in DOMAIN spBurn :
        LET midnight == DateOfDay(spBurn[i].date) - tz
            done(at) ==
                LET I == {j \in DOMAIN spIssues :
                             at[j] # TsNull /\ at[j].ms <= midnight}
                IN  SumOver([j \in I |-> sp(spIssues[j])], I, 0)
        IN  /\ spBurn[i].devCompleted = done(ReviewAts(spIssues))
            /\ spBurn[i].completeCompleted = done(CompleteAts(spIssues))

\* C22: the scenario's burn series is built: PROJ-1 was completed at noon
\* of day 2, and the burn point of day 2 counts nothing, that of day 3
\* counts its 5 story points.
C22_ScenarioBurn ==
    /\ spPc = "done" /\ spIssues = ScenarioIssues /\ tz = 0
    /\ Len(spBurn) >= 3
    /\ spBurn[2].date = 2 /\ spBurn[2].completeCompleted = 0
    /\ spBurn[3].date = 3 /\ spBurn[3].completeCompleted = 5

\* The issue has a complete time and no explicit transition into a review
\* status.
SkippedReview ==
    rvPhase.has /\ rvPhase.review = TsNull /\ rvPhase.complete # TsNull

\* C23: for an issue with a complete time and no review transition, the
\* sprint-stats route sets reviewAt to completeAt, so every burn point
\* counts it in devCompleted exactly when it counts it in
\* completeCompleted; the stats route leaves reviewAt undefined and copies
\* completeAt.
C23_ReviewFallbackOnlyInSprintStats ==
    SkippedReview =>
        /\ rvSprintPc # "merge" =>
              /\ rvSprintIssue.reviewAt = rvPhase.complete
              /\ rvSprintIssue.completeAt = rvPhase.complete
        /\ rvSprintPc = "done" =>
              \A i \in DOMAIN rvBurn :
                  rvBurn[i].devCompleted = rvBurn[i].completeCompleted
        /\ rvStatsPc = "done" =>
              /\ rvStatsIssue.reviewAt = TsNull
              /\ rvStatsIssue.completeAt = rvPhase.complete

\* C23: both routes have annotated a 2-point issue that was completed on
\* day 1 without a review transition; a burn point counts it on both
\* tracks, and the stats ticket has no reviewAt.
C23_Witness ==
    /\ SkippedReview /\ rvPhase.complete = TsIso(Noon(1))
    /\ rvPoints = JsInt(2)
    /\ rvSprintPc = "done" /\ rvStatsPc = "done"
    /\ rvSprintIssue.reviewAt = TsIso(Noon(1))
    /\ \E i \in DOMAIN rvBurn :
           rvBurn[i].completeCompleted = 2 /\ rvBurn[i].devCompleted = 2
    /\ rvStatsIssue.reviewAt = TsNull
    /\ rvStatsIssue.completeAt = TsIso(Noon(1))

\* The requests that have been started and have not completed.
InFlight == {i \in DOMAIN btStatus : btStatus[i] = "inflight"}

\* C24: the refs are split, in order, into chunks of at most 10; no request
\* of a later chunk is started before every request of the chunks before
\* it has completed, with a result or with a swallowed failure; at most 10
\* requests are in flight at any time.
C24_ChunksOfTenRunInTurn ==
    btPc \in {"loop", "await", "returned"} /\ btHasToken =>
        /\ \A k \in DOMAIN btChunks :
              Len(btChunks[k]) >= 1 /\ Len(btChunks[k]) <= 10
        /\ \A k \in DOMAIN btChunks :
              \A j \in DOMAIN btChunks[k] :
                  /\ btChunks[k][j] \in DOMAIN btRefs
                  /\ j > 1 => btChunks[k][j - 1] < btChunks[k][j]
        /\ \A i \in DOMAIN btRefs :
              \E k \in DOMAIN btChunks :
                  \E j \in DOMAIN btChunks[k] : btChunks[k][j] = i
        /\ \A k1, k2 \in DOMAIN btChunks :
              k1 < k2 =>
                  \A j1 \in DOMAIN btChunks[k1], j2 \in DOMAIN btChunks[k2] :
                      /\ btChunks[k1][j1] < btChunks[k2][j2]
                      /\ btStatus[btChunks[k2][j2]] # "waiting"
                            => Settled(btStatus[btChunks[k1][j1]])
        /\ Cardinality(InFlight) <= 10

\* C24: of 11 refs, the ten of the first chunk were in flight together and
\* have completed, one of them with a failure, and the request of the
\* second chunk is in flight.
C24_Witness ==
    /\ btPc = "await" /\ Len(btRefs) = 11 /\ btBatch = 2
    /\ InFlight = {11}
    /\ btStatus[3] = "failed"
    /\ \A i \in (1..10) \ {3} : btStatus[i] = "ok"

\* C25: whatever the order in which the requests complete and whichever of
\* them fail, out holds an entry for a URL exactly when a request for that
\* URL has succeeded, and the entry is that pull request's line counts; so
\* the returned map is fixed by which requests succeeded.
C25_OneSlotPerSucceededUrl ==
    \A u \in BtUrlIds :
        btOut[u] =
            IF \E i \in DOMAIN btRefs :
                   btRefs[i].url = u /\ btStatus[i] = "ok"
            THEN PullRequestOf(parsePullUrl(u))
            ELSE NoStats

\* C25: out was returned for ten URLs followed by the first once more; the
\* first request for URL 1 failed and the second one, of the next chunk,
\* succeeded; the request for URL 2 failed, and the one for URL 3 was the
\* last of its chunk to succeed.
C25_Witness ==
    /\ btPc = "returned" /\ btUrls = BtDistinct(10) \o <<1>>
    /\ btHasToken /\ Len(btStatus) = 11
    /\ btStatus[1] = "failed" /\ btStatus[11] = "ok"
    /\ btStatus[2] = "failed" /\ btStatus[3] = "ok"
    /\ btOut[1] = StatsOf(1, 2) /\ btOut[2] = NoStats
    /\ btOut[3] = StatsOf(3, 4)

\* The request to /api/sprint-stats has ended.
UpstreamEnded == ssUpstream \in UpstreamOutcomes

\* C26: closing the client connection does not cancel the request to
\* /api/sprint-stats: a request that is running stays running until it
\* ends, and it does end; and once the client has closed the connection no
\* further event is sent.
C26_ClientCloseDoesNotCancel ==
    /\ [][/\ ssUpstream = "running"
               => ssUpstream' \in {"running"} \cup UpstreamOutcomes
          /\ ssClient = "closed" => ssSent' = ssSent]_vars
    /\ (ssUpstream = "running") ~> UpstreamEnded

\* C26: the client has closed the connection, the timer has ticked since
\* (pct is ahead of the last event sent), and the request to
\* /api/sprint-stats has ended with an OK response all the same.
C26_Witness ==
    /\ ssClient = "closed" /\ ssUpstream = "ok" /\ ssPc = "ended"
    /\ Len(ssSent) = 2
    /\ ssSent[2].type = "progress" /\ ssSent[2].pct = 2
    /\ ssPct = 6

\* C27: on every path of the worker, with the client connected:
\* writer.close() is called once at most and no write follows it, no
\* terminal event is written while the timer is set, at most one terminal
\* event is written, and a worker that has ended wrote one terminal event
\* and closed the writer once.
C27_ClosedOnceAndSilentAfter ==
    ssClient = "connected" =>
        /\ ssCloseCalls <= 1
        /\ ~ssLateWrite
        /\ ssTerminals > 0 => ~ssTimer
        /\ ssTerminals <= 1
        /\ ssPc = "ended" => ssTerminals = 1 /\ ssCloseCalls = 1

\* C27 as the code has it on an OK response: one terminal event after the
\* timer was cleared, one close, nothing after it.
C27_HoldsOnOkResponse ==
    (ssClient = "connected" /\ ssUpstream \in {"ok", "okBadBody"}) =>
        /\ ssCloseCalls <= 1
        /\ ~ssLateWrite
        /\ ssTerminals > 0 => ~ssTimer
        /\ ssTerminals <= 1
        /\ ssPc = "ended" => ssTerminals = 1 /\ ssCloseCalls = 1

\* C27: the worker has ended after a non-OK response with the client
\* connected all along; writer.close() was called twice.
C27_ClosedTwice ==
    /\ ssClient = "connected" /\ ssUpstream = "notOk" /\ ssPc = "ended"
    /\ ssCloseCalls = 2

\* The positions of the progress events among the events sent.
SentProgress == {i \in DOMAIN ssSent : ssSent[i].type = "progress"}

\* C28: the pct values sent are non-decreasing and lie in 0 .. 100; while
\* the request to /api/sprint-stats is pending none is above 95; and 100 is
\* sent only after an OK response, with the 'done' event right after it.
C28_PctMonotoneAndCapped ==
    /\ \A i \in SentProgress : ssSent[i].pct \in 0..100
    /\ \A i, j \in SentProgress : i < j => ssSent[i].pct <= ssSent[j].pct
    /\ ssPc \in {"start", "fetch"} =>
          \A i \in SentProgress : ssSent[i].pct <= 95
    /\ \A i \in SentProgress :
          ssSent[i].pct > 95 =>
              /\ ssSent[i].pct = 100
              /\ ssUpstream = "ok"
              /\ i + 1 \in DOMAIN ssSent
              /\ ssSent[i + 1].type = "done"

\* C28: the timer reached the cap of 95 while the request was pending, the
\* response was OK, and 100 and 'done' were sent last.
C28_Witness ==
    /\ ssPc = "ended" /\ ssClient = "connected" /\ ssUpstream = "ok"
    /\ Len(ssSent) = 51
    /\ ssSent[1].pct = 1 /\ ssSent[2].pct = 2
    /\ ssSent[49].pct = 95
    /\ ssSent[50].pct = 100 /\ ssSent[51].type = "done"

RECURSIVE SumRows(_, _)
\* The sum of a field over the rows.
SumRows(rows, field) ==
    IF rows = <<>> THEN 0
    ELSE rows[1][field] + SumRows(Tail(rows), field)

\* C29: in a response, completedByAssignee has one row per name, the
\* devPoints of its rows add up to devCompletedSP and the completePoints to
\* completeCompletedSP, and an issue without assignee, or with a blank one,
\* is counted in the row 'Unassigned'.
C29_RowsAddUpToKpis ==
    asPc = "done" =>
        /\ SumRows(asRows, "devPoints") = asKpis.devCompletedSP
        /\ SumRows(asRows, "completePoints") = asKpis.completeCompletedSP
        /\ \A i, j \in DOMAIN asRows :
              asRows[i].assignee = asRows[j].assignee => i = j
        /\ \A i \in DOMAIN asIssues :
              \A track \in {"dev", "complete"} :
                  i \in CountedOn(asIssues, track, EffectiveEnd(asEnd, asNow))
                  => \E r \in DOMAIN asRows :
                         asRows[r].assignee =
                             (IF asIssues[i].assignee \in {"", "  "}
                              THEN "Unassigned"
                              ELSE asIssues[i].assignee)

\* C29: a response in which a blank assignee's 2 points and a missing
\* assignee's 2 points make the row 'Unassigned', beside alice's row, and
\* the first issue was completed before its review.
C29_Witness ==
    /\ asPc = "done" /\ asEnd = TsIso(Noon(2))
    /\ asIssues[1] = AsIssue("  ", JsInt(2), TsIso(Noon(3)), TsIso(Noon(1)))
    /\ asIssues[2].assignee = "" /\ asIssues[2].completeAt = TsIso(Noon(1))
    /\ asKpis = [devCompletedSP |-> 7, completeCompletedSP |-> 9]
    /\ asRows = << [assignee |-> "alice", devPoints |-> 5,
                    completePoints |-> 5],
                   [assignee |-> "Unassigned", devPoints |-> 2,
                    completePoints |-> 4] >>

\* C30 -- every data API handler (stats, sprint-stats, sprint-stats stream,
\* sprints, projects, users) answers a request without a valid signed
\* cookie with 401 and calls neither Jira, GitHub nor the sprint-stats
\* endpoint, whatever the query parameters are.  A cookie header carries a
\* valid signed cookie when one of its dpd_auth parts has a value that
\* decodes to a token signed with the server's secret.
SignedCookie(cookie, secret) ==
    \E i \in DOMAIN cookie :
        /\ cookie[i].name = COOKIE_NAME
        /\ Len(cookie[i].fields) = 1
        /\ cookie[i].fields[1].enc # "malformed"
        /\ verifyToken(cookie[i].fields[1].token, secret)
C30_UnsignedGets401AndNoCall ==
    (auPc = "done" /\ ~SignedCookie(auCookie, auSecret))
        => (auStatus = 401 /\ auCalls = {})
\* What holds instead: without a valid signed cookie no collaborator is
\* called and the answer is 401, or 500 when the cookie's value cannot be
\* decoded.
C30_UnsignedCallsNothing ==
    (auPc = "done" /\ ~SignedCookie(auCookie, auSecret))
        => /\ auCalls = {}
           /\ auStatus = (IF userFromRequest(auCookie, auSecret) = Thrown
                          THEN 500 ELSE 401)
\* A request whose dpd_auth value ends in a lone '%' has been answered with
\* 500 although its query names everything the route requires.
C30_MalformedCookieAnswered ==
    /\ auPc = "done" /\ auQuery = "present"
    /\ auCookie = <<CookiePart(COOKIE_NAME, <<Malformed>>)>>
    /\ auStatus = 500 /\ auCalls = {}

=============================================================================
